---- MODULE Spec2Model ----
(***************************************************************************)
(* A model of the project store of yoloflow: the configuration document    *)
(* (yoloflow.toml), the model registry over pretrain/ and model/, the      *)
(* dataset registry over dataset/, and the plan store; of the project      *)
(* directory a Project is opened on; and of the backend manager with its   *)
(* model selector.                                                         *)
(*                                                                         *)
(* File names are sequences of dot-separated components, "a.pt" being      *)
(* <<"a", "pt">>; display names and descriptions are sequences of words.   *)
(* The absent value (Python's None) is the string NoneVal.                 *)
(***************************************************************************)
EXTENDS Integers, Sequences, FiniteSets, TLC

VARIABLES
    config_data,    \* ProjectConfig._config_data, the in-memory document
    config_file,    \* the content of yoloflow.toml on disk
    pretrain_dir,   \* <project>/pretrain : file name -> content
    model_dir,      \* <project>/model    : file name -> content (the *.pt side)
    mm_task_type,   \* ProjectModelManager.task_type
    dataset_dir,    \* <project>/dataset  : directory name -> set of files
    plan_files,     \* <project>/model/*.toml : file name -> document
    plans_cache,    \* ProjectPlanManager._plans_cache : plan_id -> PlanContext
    pm_task_type,   \* ProjectPlanManager.task_type
    uuid_count,     \* the number of uuid4() values handed out
    venvs,          \* the backends whose directory holds a .venv
    sidecars,       \* <backends>/<name>.toml : backend name -> document
    backend_infos,  \* BackendManager._backend_infos : backend name -> BackendInfo
    loaded_backends,\* BackendManager._loaded_backends : backend name -> instance
    selector_models,\* ModelSelector._models
    refresh_count,  \* the number of ModelSelector.refresh_models calls so far
    install,        \* the install_backend_dependencies call under way, its worker
    project_path,   \* what is at the project path: "absent", "file" or "dir"
    subdirs,        \* the directories of REQUIRED_DIRS the project directory holds
    config_kind,    \* yoloflow.toml on disk: "absent", "toml" or "malformed"
    config_live,    \* whether a ProjectConfig object has been constructed
    last,           \* the last call: its name, arguments, outcome
    steps           \* the number of calls and external changes so far

configVars  == <<config_data, config_file>>
modelVars   == <<pretrain_dir, model_dir, mm_task_type>>
datasetVars == <<dataset_dir>>
planVars    == <<plan_files, plans_cache, pm_task_type, uuid_count>>
backendVars == <<venvs, sidecars, backend_infos, loaded_backends, selector_models,
                 refresh_count, install>>
dirVars     == <<project_path, subdirs, config_kind, config_live>>
vars == <<configVars, modelVars, datasetVars, planVars, backendVars, dirVars, last, steps>>

-----------------------------------------------------------------------------
(* Bounds *)

MaxOps == 3         \* calls and external file changes in one behaviour

NoneVal == "<None>"

\* the contents a file can have
Data == {1, 2}

-----------------------------------------------------------------------------
(* Sequences and sets *)

SeqToSet(s) == {s[i] : i \in 1..Len(s)}

\* every order in which a loop over the Python set S can visit it
Orderings(S) ==
    {s \in [1..Cardinality(S) -> S] : \A i, j \in 1..Cardinality(S) : i # j => s[i] # s[j]}

\* list.remove(x): drops the first occurrence
RECURSIVE ListRemove(_, _)
ListRemove(s, x) ==
    IF s = <<>> THEN <<>>
    ELSE IF Head(s) = x THEN Tail(s)
    ELSE <<Head(s)>> \o ListRemove(Tail(s), x)

\* a mapping with one more key, or the key's value replaced
Put(f, key, value) == [k \in DOMAIN f \cup {key} |-> IF k = key THEN value ELSE f[k]]

\* a mapping without the key
Drop(f, key) == [k \in DOMAIN f \ {key} |-> f[k]]

\* data.get(section, {}).get(key, default)
GetIn(data, section, key, default) ==
    IF section \in DOMAIN data /\ key \in DOMAIN data[section]
    THEN data[section][key] ELSE default

-----------------------------------------------------------------------------
(* enums/task_type.py *)

TaskTypeValue(t) ==
    CASE t = "CLASSIFICATION" -> "classification"
      [] t = "DETECTION" -> "detection"
      [] t = "SEGMENTATION" -> "segmentation"
      [] t = "INSTANCE_SEGMENTATION" -> "instance_segmentation"
      [] t = "KEYPOINT" -> "keypoint"
      [] t = "ORIENTED_DETECTION" -> "oriented_detection"

TaskType == {"CLASSIFICATION", "DETECTION", "SEGMENTATION",
             "INSTANCE_SEGMENTATION", "KEYPOINT", "ORIENTED_DETECTION"}

\* TaskType(value): the member with that value
TaskTypeOf(v) == CHOOSE t \in TaskType : TaskTypeValue(t) = v

\* the task types the behaviours draw from
TaskTypeInputs == {"DETECTION", "CLASSIFICATION"}

\* what a file whose text is no TOML holds: toml.load, tomllib.load raise on it
NoToml == [decode_error |-> TRUE]

-----------------------------------------------------------------------------
(* File names *)

PtNames == {<<"a", "pt">>, <<"b_c", "pt">>}
OtherNames == {<<"a", "txt">>}
FileNames == PtNames \cup OtherNames

\* str.endswith('.pt')
EndsWithPt(f) == Len(f) >= 2 /\ f[Len(f)] = "pt"

\* dir.glob("*.pt"), as the set of names
GlobPt(dir) == {f \in DOMAIN dir : EndsWithPt(f)}

\* Python's order on the file names of the model: "a.pt" < "a.txt" < "b_c.pt"
NameOrder == << <<"a", "pt">>, <<"a", "txt">>, <<"b_c", "pt">> >>
NameRank(f) == CHOOSE i \in 1..Len(NameOrder) : NameOrder[i] = f
NameLess(f, g) == NameRank(f) < NameRank(g)

\* word.replace('_', ' ').title()
TitleWord(w) ==
    CASE w = "a" -> "A"
      [] w = "b_c" -> "B C"
      [] w = "txt" -> "Txt"
      [] OTHER -> w

\* filename.replace('.pt', '').replace('_', ' ').title()
HumanName(f) ==
    LET kept == <<Head(f)>> \o SelectSeq(Tail(f), LAMBDA c : c # "pt")
    IN [i \in 1..Len(kept) |-> TitleWord(kept[i])]

\* sorted(result, key=lambda x: x.filename)
RECURSIVE SortedInsert(_, _)
SortedInsert(s, e) ==
    IF s = <<>> THEN <<e>>
    ELSE IF NameLess(e.filename, Head(s).filename) THEN <<e>> \o s
    ELSE <<Head(s)>> \o SortedInsert(Tail(s), e)

\* a listing returned in the order of the config, the sort left out
SortedByFilename_Unsorted(s) == s

RECURSIVE SortedByFilename(_)
SortedByFilename(s) ==
    IF s = <<>> THEN <<>>
    ELSE SortedInsert(SortedByFilename(SubSeq(s, 1, Len(s) - 1)), s[Len(s)])

-----------------------------------------------------------------------------
(* project_model_info.py *)

PretrainedSources == {"imported", "project_creation"}

ProjectModelInfo(name, filename, description, parameters, task_type, source) ==
    [name |-> name, filename |-> filename, description |-> description,
     parameters |-> parameters, task_type |-> task_type, source |-> source]

ModelInfoToDict(info) == [info EXCEPT !.task_type = TaskTypeValue(info.task_type)]

ModelInfoFromDict(d) == [d EXCEPT !.task_type = TaskTypeOf(d.task_type)]

-----------------------------------------------------------------------------
(* project_config.py: the document and its model section *)

\* _create_default_config at the time given
CreateDefaultConfig(now) ==
    [project  |-> [name |-> "", task_type |-> TaskTypeValue("DETECTION"),
                   created_at |-> now, description |-> ""],
     datasets |-> [available |-> <<>>, detailed |-> <<>>],
     models   |-> [available |-> <<>>, detailed |-> <<>>],
     plans    |-> [available |-> <<>>, detailed |-> <<>>],
     training |-> [history |-> <<>>],
     custom_fields |-> [k \in {} |-> ""]]

\* the default document of a project created before the behaviour starts
DefaultConfig == CreateDefaultConfig(0)

\* the property task_type
ConfigTaskType(cd) == TaskTypeOf(GetIn(cd, "project", "task_type", TaskTypeValue("DETECTION")))

model_details(cd) ==
    LET detailed == GetIn(cd, "models", "detailed", <<>>)
    IN [i \in 1..Len(detailed) |-> ModelInfoFromDict(detailed[i])]

pretrained_models(cd) ==
    LET kept == SelectSeq(model_details(cd), LAMBDA m : m.source \in PretrainedSources)
    IN [i \in 1..Len(kept) |-> kept[i].filename]

add_model(cd, info) ==
    LET models == IF "models" \in DOMAIN cd THEN cd.models
                  ELSE [available |-> <<>>, detailed |-> <<>>]
        available == IF info.filename \in SeqToSet(models.available)
                     THEN models.available
                     ELSE Append(models.available, info.filename)
        detailed == Append(SelectSeq(models.detailed, LAMBDA m : m.filename # info.filename),
                           ModelInfoToDict(info))
    IN Put(cd, "models", [available |-> available, detailed |-> detailed])

\* a removal that leaves the detailed entry in place
remove_model_AvailableOnly(cd, filename) ==
    IF "models" \in DOMAIN cd
    THEN [cd EXCEPT !.models.available = ListRemove(@, filename)]
    ELSE cd

remove_model(cd, filename) ==
    IF "models" \in DOMAIN cd
    THEN [cd EXCEPT !.models =
            [available |-> ListRemove(cd.models.available, filename),
             detailed  |-> SelectSeq(cd.models.detailed, LAMBDA m : m.filename # filename)]]
    ELSE cd

\* a loop of remove_model calls over a set (the calls commute)
RECURSIVE RemoveModels(_, _)
RemoveModels(cd, S) ==
    IF S = {} THEN cd
    ELSE LET f == CHOOSE x \in S : TRUE
         IN RemoveModels(remove_model(cd, f), S \ {f})

\* a loop of add_model calls in the order given
RECURSIVE AddModels(_, _)
AddModels(cd, infos) ==
    IF infos = <<>> THEN cd
    ELSE AddModels(add_model(cd, Head(infos)), Tail(infos))

-----------------------------------------------------------------------------
(* The record of the last call *)

\* op: the call; prev: the call before it; raised: the exception, "" for none;
\* ret: what it returned; saves: the config.save() calls it made;
\* dest, bucket: the file and the directory it was about
Call(op, raised, ret, saves, dest, bucket) ==
    [op |-> op, prev |-> last.op, raised |-> raised, ret |-> ret, saves |-> saves,
     dest |-> dest, bucket |-> bucket]

NoCall ==
    [op |-> "init", prev |-> "", raised |-> "", ret |-> <<>>, saves |-> 0,
     dest |-> <<>>, bucket |-> ""]

Tick == steps < MaxOps /\ steps' = steps + 1

\* datetime.now().isoformat() during the call under way
Now == steps + 1

\* shutil.copy2(source, dir / name) and a file dropped into dir
WriteFile(dir, name, data) ==
    [f \in DOMAIN dir \cup {name} |-> IF f = name THEN data ELSE dir[f]]

\* path.unlink()
DeleteFile(dir, name) == [f \in DOMAIN dir \ {name} |-> dir[f]]

EmptyDir == [f \in {} |-> 0]

-----------------------------------------------------------------------------
(* project_model_manager.py *)

nonModelVars == <<datasetVars, planVars, backendVars, dirVars>>

AutoPretrained(f, task_type) ==
    ProjectModelInfo(HumanName(f), f, <<"Auto-discovered model:">> \o HumanName(f),
                     "", task_type, "imported")

AutoTrained(f, task_type) ==
    ProjectModelInfo(HumanName(f), f, <<"Auto-discovered trained model:">> \o HumanName(f),
                     "", task_type, "plan_created")

\* a reconciliation that saves on every read
SyncNeedsSave_Always(stale, undeclared) == TRUE

\* lines 108-109 and 158-159: whether the reconciliation saves the config
SyncNeedsSave(stale, undeclared) == stale # {} \/ undeclared # {}

\* a reconciliation that never finds a config entry without its file
PretrainedStale_Never(cd, dir) == {}

\* the files get_pretrained_models finds in the config but not on disk
PretrainedStale(cd, dir) == SeqToSet(pretrained_models(cd)) \ GlobPt(dir)

\* a reconciliation that never registers a file it finds
PretrainedUndeclared_Never(cd, dir) == {}

\* the files get_pretrained_models finds on disk but not in the config
PretrainedUndeclared(cd, dir) == GlobPt(dir) \ SeqToSet(pretrained_models(cd))

\* get_pretrained_models, the undeclared files visited in the order given:
\* the config it leaves, the list it returns, the number of saves
PretrainedSync(cd, dir, task_type, order) ==
    LET stale == PretrainedStale(cd, dir)
        undeclared == PretrainedUndeclared(cd, dir)
        cd1 == RemoveModels(cd, stale)
        cd2 == AddModels(cd1, [i \in 1..Len(order) |-> AutoPretrained(order[i], task_type)])
        result == SelectSeq(model_details(cd2),
                            LAMBDA m : m.source \in PretrainedSources
                                       /\ m.filename \in GlobPt(dir))
    IN [config |-> cd2,
        ret |-> SortedByFilename(result),
        saves |-> IF SyncNeedsSave(stale, undeclared) THEN 1 ELSE 0]

\* the entries get_trained_models finds for files on disk
TrainedPresent(cd, dir) ==
    SelectSeq(model_details(cd),
              LAMBDA m : m.source = "plan_created" /\ m.filename \in GlobPt(dir))

TrainedUndeclared(cd, dir) ==
    GlobPt(dir) \ {TrainedPresent(cd, dir)[i].filename : i \in 1..Len(TrainedPresent(cd, dir))}

\* get_trained_models, the undeclared files visited in the order given
TrainedList(cd, dir, task_type, order) ==
    LET found == [i \in 1..Len(order) |-> AutoTrained(order[i], task_type)]
    IN [config |-> AddModels(cd, found),
        ret |-> SortedByFilename(TrainedPresent(cd, dir) \o found),
        saves |-> IF SyncNeedsSave({}, TrainedUndeclared(cd, dir)) THEN 1 ELSE 0]

\* _sync_trained_models: the config it leaves and the number of saves
SyncTrainedModels(cd, dir) ==
    LET kept == SelectSeq(model_details(cd), LAMBDA m : m.source = "plan_created")
        stale == {kept[i].filename : i \in 1..Len(kept)} \ GlobPt(dir)
    IN [config |-> RemoveModels(cd, stale),
        saves |-> IF stale # {} THEN 1 ELSE 0]

get_pretrained_models ==
    /\ Tick
    /\ \E order \in Orderings(PretrainedUndeclared(config_data, pretrain_dir)) :
         LET r == PretrainedSync(config_data, pretrain_dir, mm_task_type, order)
         IN /\ config_data' = r.config
            /\ config_file' = IF r.saves > 0 THEN r.config ELSE config_file
            /\ last' = Call("get_pretrained_models", "", r.ret, r.saves, <<>>, "pretrain")
    /\ UNCHANGED <<modelVars, nonModelVars>>

get_trained_models ==
    /\ Tick
    /\ \E order \in Orderings(TrainedUndeclared(config_data, model_dir)) :
         LET r == TrainedList(config_data, model_dir, mm_task_type, order)
         IN /\ config_data' = r.config
            /\ config_file' = IF r.saves > 0 THEN r.config ELSE config_file
            /\ last' = Call("get_trained_models", "", r.ret, r.saves, <<>>, "model")
    /\ UNCHANGED <<modelVars, nonModelVars>>

\* lines 196-201: the name of the file in the project
TargetName(source, filename) ==
    IF filename # <<>>
    THEN IF EndsWithPt(filename) THEN filename ELSE Append(filename, "pt")
    ELSE source.name

\* lines 206, 290, 341: the check that the model is already there
TargetExists(dir, target_name) == target_name \in DOMAIN dir

\* the three add operations past their arguments: bucket, target name, entry
AddModel(op, bucket, source, target_name, info) ==
    LET dir == IF bucket = "pretrain" THEN pretrain_dir ELSE model_dir
    IN /\ Tick
       /\ IF ~source.exists
          THEN /\ last' = Call(op, "FileNotFoundError", <<>>, 0, target_name, bucket)
               /\ UNCHANGED <<configVars, modelVars>>
          ELSE IF TargetExists(dir, target_name)
          THEN /\ last' = Call(op, "ValueError", <<>>, 0, target_name, bucket)
               /\ UNCHANGED <<configVars, modelVars>>
          ELSE /\ IF bucket = "pretrain"
                  THEN /\ pretrain_dir' = WriteFile(pretrain_dir, target_name, source.data)
                       /\ UNCHANGED model_dir
                  ELSE /\ model_dir' = WriteFile(model_dir, target_name, source.data)
                       /\ UNCHANGED pretrain_dir
               /\ config_data' = add_model(config_data, info)
               /\ config_file' = config_data'
               /\ last' = Call(op, "", <<info>>, 1, target_name, bucket)
               /\ UNCHANGED mm_task_type
       /\ UNCHANGED nonModelVars

add_pretrained_model(source, model_name, description, parameters, task_type, filename) ==
    LET target_name == TargetName(source, filename)
    IN AddModel("add_pretrained_model", "pretrain", source, target_name,
                ProjectModelInfo(model_name, target_name, description, parameters,
                                 IF task_type # NoneVal THEN task_type ELSE mm_task_type,
                                 "imported"))

add_trained_model(source, plan_name, model_name, description, parameters, filename) ==
    LET target_name == TargetName(source, filename)
    IN AddModel("add_trained_model", "model", source, target_name,
                ProjectModelInfo(model_name, target_name,
                                 IF description # <<>> THEN description
                                 ELSE <<"Model trained from plan:", plan_name>>,
                                 parameters, mm_task_type, "plan_created"))

add_model_from_info(model_info, source) ==
    AddModel("add_model_from_info",
             IF model_info.source \in PretrainedSources THEN "pretrain" ELSE "model",
             source, model_info.filename, model_info)

remove_pretrained_model(model_name) ==
    /\ Tick
    /\ IF model_name \in DOMAIN pretrain_dir
       THEN /\ pretrain_dir' = DeleteFile(pretrain_dir, model_name)
            /\ config_data' = remove_model(config_data, model_name)
            /\ config_file' = config_data'
            /\ last' = Call("remove_pretrained_model", "", <<TRUE>>, 1, model_name, "pretrain")
       ELSE /\ last' = Call("remove_pretrained_model", "", <<FALSE>>, 0, model_name, "pretrain")
            /\ UNCHANGED <<configVars, pretrain_dir>>
    /\ UNCHANGED <<model_dir, mm_task_type, nonModelVars>>

\* ProjectModelManager.__init__ over the project as it is
NewModelManager ==
    /\ Tick
    /\ \E order \in Orderings(PretrainedUndeclared(config_data, pretrain_dir)) :
         LET task_type == ConfigTaskType(config_data)
             r == PretrainedSync(config_data, pretrain_dir, task_type, order)
             t == SyncTrainedModels(r.config, model_dir)
         IN /\ mm_task_type' = task_type
            /\ config_data' = t.config
            /\ config_file' = IF t.saves > 0 THEN t.config
                              ELSE IF r.saves > 0 THEN r.config ELSE config_file
            /\ last' = Call("ProjectModelManager", "", <<>>, r.saves + t.saves, <<>>, "")
    /\ UNCHANGED <<pretrain_dir, model_dir, nonModelVars>>

\* the directory after the user deleted all but the files kept and dropped
\* the files added (their content is the user's)
Edited(dir, kept, added) ==
    [f \in kept \cup added |-> IF f \in added THEN 1 ELSE dir[f]]

\* the user deletes files of pretrain/ or model/ and drops new ones there,
\* outside the API
ExternalChange(bucket, files) ==
    LET dir == IF bucket = "pretrain" THEN pretrain_dir ELSE model_dir
        new == Edited(dir, files \cap DOMAIN dir, files \ DOMAIN dir)
    IN /\ Tick
       /\ files # DOMAIN dir
       /\ IF bucket = "pretrain"
          THEN pretrain_dir' = new /\ UNCHANGED model_dir
          ELSE model_dir' = new /\ UNCHANGED pretrain_dir
       /\ last' = Call("external", "", <<>>, 0, <<>>, bucket)
       /\ UNCHANGED <<configVars, mm_task_type, nonModelVars>>

(* The inputs of the model registry *)

Buckets == {"pretrain", "model"}
SourceFiles ==
    {[exists |-> FALSE, name |-> <<"a", "pt">>, data |-> 1],
     [exists |-> TRUE, name |-> <<"a", "pt">>, data |-> 1],
     [exists |-> TRUE, name |-> <<"a", "pt">>, data |-> 2],
     [exists |-> TRUE, name |-> <<"a", "txt">>, data |-> 1]}
PretrainedFilenames == {<<>>, <<"b_c">>}
TrainedFilenames == {<<>>, <<"b_c", "pt">>}
Descriptions == {<<>>, <<"desc">>}
GivenTaskTypes == {NoneVal, "SEGMENTATION"}
GivenInfos ==
    {ProjectModelInfo(<<"Custom">>, f, <<"desc">>, "3M", "SEGMENTATION", s) :
        f \in {<<"a", "pt">>}, s \in {"project_creation", "plan_created"}}

\* the other parts of the project, untouched by the model registry
IdleDatasets == dataset_dir = EmptyDir
IdleBackends ==
    /\ venvs = {}
    /\ sidecars = EmptyDir
    /\ backend_infos = EmptyDir
    /\ loaded_backends = EmptyDir
    /\ selector_models = <<>>
    /\ refresh_count = 0
    /\ install = [pc |-> "idle", name |-> "", outcome |-> FALSE, callbacks |-> 0, trace |-> <<>>]

\* Project.REQUIRED_DIRS
RequiredDirs == {"dataset", "model", "pretrain", "runs", "plan"}

\* the project directory as create_new leaves it, its ProjectConfig held
IdleProjectDir ==
    /\ project_path = "dir"
    /\ subdirs = RequiredDirs
    /\ config_kind = "toml"
    /\ config_live = TRUE

IdlePlans ==
    /\ plan_files = EmptyDir
    /\ plans_cache = EmptyDir
    /\ pm_task_type = "DETECTION"
    /\ uuid_count = 0

\* a project of some task type, its config saved, its model manager constructed
Init ==
    /\ \E t \in TaskTypeInputs :
         /\ config_data = [DefaultConfig EXCEPT !.project.task_type = TaskTypeValue(t)]
         /\ mm_task_type = t
    /\ config_file = config_data
    /\ pretrain_dir = EmptyDir
    /\ model_dir = EmptyDir
    /\ IdleDatasets
    /\ IdlePlans
    /\ IdleBackends
    /\ IdleProjectDir
    /\ last = NoCall
    /\ steps = 0

Next ==
    \/ get_pretrained_models
    \/ get_trained_models
    \/ \E s \in SourceFiles, t \in GivenTaskTypes, f \in PretrainedFilenames :
         add_pretrained_model(s, <<"Custom">>, <<"desc">>, "3M", t, f)
    \/ \E s \in SourceFiles, d \in Descriptions, f \in TrainedFilenames :
         add_trained_model(s, "plan", <<"Custom">>, d, "3M", f)
    \/ \E i \in GivenInfos, s \in SourceFiles : add_model_from_info(i, s)
    \/ \E f \in FileNames : remove_pretrained_model(f)
    \/ NewModelManager
    \/ \E b \in Buckets, files \in SUBSET FileNames : ExternalChange(b, files)

Spec == Init /\ [][Next]_vars

-----------------------------------------------------------------------------
(* Properties of the model registry, checked under Spec *)

PtFilesIn(dir) == {f \in DOMAIN dir : f[Len(f)] = "pt"}
RetFilenames == {last.ret[i].filename : i \in 1..Len(last.ret)}
BucketDir(b) == IF b = "pretrain" THEN pretrain_dir ELSE model_dir
ConfigEntries(cd) == SeqToSet(cd.models.detailed)
AddOps == {"add_pretrained_model", "add_trained_model", "add_model_from_info"}

\* C1: when get_pretrained_models() returns, every .pt file in pretrain/ has
\* an entry in the returned list and in the config, and the config holds no
\* entry of source imported or project_creation whose file is not in pretrain/.
C1_SelfHealing ==
    last.op = "get_pretrained_models" =>
        /\ \A f \in PtFilesIn(pretrain_dir) :
              /\ f \in RetFilenames
              /\ \E m \in ConfigEntries(config_data) : m.filename = f
        /\ \A m \in ConfigEntries(config_data) :
              m.source \in PretrainedSources => m.filename \in DOMAIN pretrain_dir

\* a read that found a dropped file beside a file that is no model, and saved
C1_Witness ==
    /\ last.op = "get_pretrained_models"
    /\ last.saves = 1
    /\ PtFilesIn(pretrain_dir) # {}
    /\ DOMAIN pretrain_dir # PtFilesIn(pretrain_dir)

\* C2: a get_pretrained_models() directly after a get_pretrained_models(), no
\* file changed in between, returns the same entries, leaves the config as it
\* is and does not save; the same for get_trained_models().
C2_Idempotent ==
    [][\A op \in {"get_pretrained_models", "get_trained_models"} :
          (last.op = op /\ last'.op = op /\ steps' = steps + 1) =>
              /\ SeqToSet(last'.ret) = SeqToSet(last.ret)
              /\ config_data' = config_data
              /\ config_file' = config_file
              /\ last'.saves = 0]_vars

\* a second read in a row that returned entries
C2_Witness ==
    /\ last.op \in {"get_pretrained_models", "get_trained_models"}
    /\ last.prev = last.op
    /\ last.ret # <<>>

\* the list is the .pt files of the directory, one entry each, ascending
ExactListing(ret, dir) ==
    /\ {ret[i].filename : i \in 1..Len(ret)} = PtFilesIn(dir)
    /\ \A i, j \in 1..Len(ret) : i < j => NameLess(ret[i].filename, ret[j].filename)

\* C3: get_pretrained_models() returns exactly one entry for each .pt file in
\* pretrain/ and nothing else, in ascending file name order, and
\* get_trained_models() does the same for model/.
C3_ExactSortedListing ==
    /\ last.op = "get_pretrained_models" => ExactListing(last.ret, pretrain_dir)
    /\ last.op = "get_trained_models" => ExactListing(last.ret, model_dir)

\* a listing of two models from a directory that also holds another file
C3_Witness ==
    /\ last.op \in {"get_pretrained_models", "get_trained_models"}
    /\ Len(last.ret) = 2
    /\ Cardinality(DOMAIN BucketDir(last.bucket)) = 3

\* C4: an add whose destination file name is already in the project, as a
\* file of the target directory or as an entry of the config, raises and
\* leaves the files and the config as they are.
C4_DuplicateRejected ==
    [][(/\ last'.op \in AddOps
        /\ steps' = steps + 1
        /\ \/ last'.dest \in DOMAIN BucketDir(last'.bucket)
           \/ \E m \in ConfigEntries(config_data) : m.filename = last'.dest)
       => (/\ last'.raised # ""
           /\ UNCHANGED <<config_data, config_file, pretrain_dir, model_dir>>)]_vars

\* the config entries of a bucket: pretrained by their source, or trained
PretrainedEntries(cd) == {m \in ConfigEntries(cd) : m.source \in PretrainedSources}
TrainedEntries(cd) == {m \in ConfigEntries(cd) : m.source = "plan_created"}
ReadOps == {"get_pretrained_models", "get_trained_models"}

\* C28: a call on the pretrained bucket leaves the config entries of the
\* trained bucket as they are, and a call on the trained bucket those of the
\* pretrained bucket; a file name in both directories is listed by both
\* reads; and once each read has been made, the files unchanged, a further
\* read leaves the config as it is and does not save
C28_BucketsIndependent ==
    [][/\ (steps' = steps + 1 /\ last'.op # "external" /\ last'.bucket = "pretrain")
            => TrainedEntries(config_data') = TrainedEntries(config_data)
       /\ (steps' = steps + 1 /\ last'.op # "external" /\ last'.bucket = "model")
            => PretrainedEntries(config_data') = PretrainedEntries(config_data)
       /\ (steps' = steps + 1 /\ last'.op \in ReadOps) =>
            \A f \in PtFilesIn(pretrain_dir) \cap PtFilesIn(model_dir) :
                \E i \in 1..Len(last'.ret) : last'.ret[i].filename = f
       /\ (/\ last.op \in ReadOps /\ last.prev \in ReadOps /\ last.op # last.prev
           /\ steps' = steps + 1 /\ last'.op \in ReadOps)
            => /\ UNCHANGED <<config_data, config_file>>
               /\ last'.saves = 0]_vars

\* C29: when get_trained_models() returns, the config holds no entry of
\* source plan_created whose file is not in model/, and every .pt file of
\* model/ has an entry of source plan_created
C29_TrainedReconciledOnRead ==
    last.op = "get_trained_models" =>
        /\ \A m \in TrainedEntries(config_data) : m.filename \in DOMAIN model_dir
        /\ \A f \in PtFilesIn(model_dir) :
              \E m \in TrainedEntries(config_data) : m.filename = f

\* C30: get_pretrained_models() saves the config once when an entry of a
\* pretrained source has no file in pretrain/ or a .pt file of pretrain/ has
\* no such entry, and not at all otherwise; when it returns, the file on
\* disk lists an entry for every file it found undeclared
C30_OneSavePerSync ==
    [][(last'.op = "get_pretrained_models" /\ steps' = steps + 1) =>
         LET declared == {m.filename : m \in PretrainedEntries(config_data)}
             stale == declared \ PtFilesIn(pretrain_dir)
             undeclared == PtFilesIn(pretrain_dir) \ declared
         IN /\ last'.saves = IF stale # {} \/ undeclared # {} THEN 1 ELSE 0
            /\ last'.saves = 0 => config_file' = config_file
            /\ \A f \in undeclared :
                  /\ \E m \in PretrainedEntries(config_file') :
                        m.filename = f /\ m.source = "imported"
                  /\ \E i \in 1..Len(last'.ret) : last'.ret[i].filename = f
            /\ \A f \in stale : \A m \in ConfigEntries(config_file') : m.filename # f]_vars

\* a read that found two files dropped into pretrain/ and saved once
C30_Witness ==
    /\ last.op = "get_pretrained_models"
    /\ last.prev = "external"
    /\ last.saves = 1
    /\ Len(last.ret) = 2
    /\ \A i \in 1..Len(last.ret) :
          \E m \in ConfigEntries(config_file) : m.filename = last.ret[i].filename

-----------------------------------------------------------------------------
(* dataset_info.py, enums/dataset_type.py *)

\* DatasetType has the members and the values of TaskType
DatasetTypeValue(t) == TaskTypeValue(t)
DatasetTypeOf(v) == TaskTypeOf(v)

DatasetInfo(name, path, dataset_type, description) ==
    [name |-> name, path |-> path, dataset_type |-> dataset_type,
     description |-> description]

DatasetInfoToDict(info) ==
    [name |-> info.name, path |-> info.path,
     type |-> DatasetTypeValue(info.dataset_type), description |-> info.description]

DatasetInfoFromDict(d) ==
    DatasetInfo(d.name, d.path, DatasetTypeOf(d.type), d.description)

\* f"dataset/{name}"
DatasetPath(name) == <<"dataset", name>>

-----------------------------------------------------------------------------
(* project_config.py: the legacy list of dataset names *)

\* a remove that leaves the name in the legacy list
config_remove_dataset_Keeps(cd, dataset_name) == cd

config_add_dataset(cd, dataset_name) ==
    LET cd0 == IF "datasets" \in DOMAIN cd THEN cd
               ELSE Put(cd, "datasets", [available |-> <<>>, current |-> NoneVal])
    IN IF dataset_name \in SeqToSet(cd0.datasets.available) THEN cd0
       ELSE [cd0 EXCEPT !.datasets.available = Append(@, dataset_name)]

config_remove_dataset(cd, dataset_name) ==
    IF "datasets" \in DOMAIN cd /\ dataset_name \in SeqToSet(cd.datasets.available)
    THEN LET cd1 == [cd EXCEPT !.datasets.available = ListRemove(@, dataset_name)]
         IN IF "current" \in DOMAIN cd1.datasets /\ cd1.datasets.current = dataset_name
            THEN [cd1 EXCEPT !.datasets.current = ""]
            ELSE cd1
    ELSE cd

-----------------------------------------------------------------------------
(* dataset_manager.py *)

nonDatasetVars == <<modelVars, planVars, backendVars, dirVars>>

datasets(cd) ==
    [i \in 1..Len(cd.datasets.detailed) |-> DatasetInfoFromDict(cd.datasets.detailed[i])]

\* a lookup that never finds the name
DatasetExists_Never(cd, name) == FALSE

\* get_dataset(name) finds an entry
DatasetExists(cd, name) == \E i \in 1..Len(datasets(cd)) : datasets(cd)[i].name = name

\* get_dataset(name): the first entry of that name
get_dataset(cd, name) ==
    LET i == CHOOSE k \in 1..Len(datasets(cd)) :
                 /\ datasets(cd)[k].name = name
                 /\ \A j \in 1..(k - 1) : datasets(cd)[j].name # name
    IN datasets(cd)[i]

\* add_dataset past its duplicate check: the entry, and the config it leaves
NewDatasetInfo(cd, name, dataset_type, description) ==
    DatasetInfo(name, DatasetPath(name),
                IF dataset_type = NoneVal
                THEN DatasetTypeOf(TaskTypeValue(ConfigTaskType(cd)))
                ELSE dataset_type,
                description)

Registered(cd, name, dataset_type, description) ==
    config_add_dataset(
        [cd EXCEPT !.datasets.detailed =
            Append(@, DatasetInfoToDict(NewDatasetInfo(cd, name, dataset_type, description)))],
        name)

\* a remove that forgets the legacy list
Unregistered_TypedOnly(cd, name) ==
    [cd EXCEPT !.datasets.detailed = SelectSeq(@, LAMBDA d : d.name # name)]

\* remove_dataset past its lookup: the config it leaves
Unregistered(cd, name) ==
    config_remove_dataset(
        [cd EXCEPT !.datasets.detailed = SelectSeq(@, LAMBDA d : d.name # name)],
        name)

\* shutil.rmtree(project_path / dataset.path), if the directory exists
RemoveTree(dirs, path) == [n \in DOMAIN dirs \ {path[2]} |-> dirs[n]]

\* the directory dataset/<name> holding the files given
WithTree(dirs, name, files) ==
    [n \in DOMAIN dirs \cup {name} |-> IF n = name THEN files ELSE dirs[n]]

add_dataset(name, dataset_type, description) ==
    /\ Tick
    /\ IF DatasetExists(config_data, name)
       THEN /\ last' = Call("add_dataset", "ValueError", <<>>, 0, <<name>>, "dataset")
            /\ UNCHANGED configVars
       ELSE /\ config_data' = Registered(config_data, name, dataset_type, description)
            /\ config_file' = config_data'
            /\ last' = Call("add_dataset", "",
                            <<NewDatasetInfo(config_data, name, dataset_type, description)>>,
                            1, <<name>>, "dataset")
    /\ UNCHANGED <<dataset_dir, nonDatasetVars>>

remove_dataset(name, delete_files) ==
    /\ Tick
    /\ IF ~DatasetExists(config_data, name)
       THEN /\ last' = Call("remove_dataset", "ValueError", <<>>, 0, <<name, delete_files>>,
                            "dataset")
            /\ UNCHANGED <<configVars, dataset_dir>>
       ELSE /\ config_data' = Unregistered(config_data, name)
            /\ config_file' = config_data'
            /\ dataset_dir' = IF delete_files
                              THEN RemoveTree(dataset_dir, get_dataset(config_data, name).path)
                              ELSE dataset_dir
            /\ last' = Call("remove_dataset", "", <<>>, 1, <<name, delete_files>>, "dataset")
    /\ UNCHANGED nonDatasetVars

\* what a failed rmtree + copytree can leave of dataset/<name>: the old
\* directory partly deleted, no directory, or a part of the source
FailedCopyLeaves(dirs, name, source_files) ==
    {WithTree(dirs, name, S) : S \in (IF name \in DOMAIN dirs THEN SUBSET dirs[name] ELSE {})}
    \cup {RemoveTree(dirs, DatasetPath(name))}
    \cup {WithTree(dirs, name, S) : S \in SUBSET source_files}

\* what a failed mkdir + extractall can leave of dataset/<name>: nothing, or
\* the directory with what it held and a part of the archive
FailedExtractLeaves(dirs, name, source_files) ==
    (IF name \in DOMAIN dirs THEN {} ELSE {dirs})
    \cup {WithTree(dirs, name, (IF name \in DOMAIN dirs THEN dirs[name] ELSE {}) \cup S) :
            S \in SUBSET source_files}

\* the delete_files argument of the rollback (lines 258 and 303)
RollbackDeletesFiles(kind) == kind = "zip"

\* import_from_folder and import_from_zip: kind is "folder" or "zip", fails
\* tells whether the copy or extract step raises
ImportDataset(kind, source, name, dataset_type, description, fails) ==
    LET op == IF kind = "folder" THEN "import_from_folder" ELSE "import_from_zip"
        info == NewDatasetInfo(config_data, name, dataset_type, description)
        added == Registered(config_data, name, dataset_type, description)
    IN /\ Tick
       /\ IF ~source.exists
          THEN /\ ~fails
               /\ last' = Call(op, "FileNotFoundError", <<>>, 0, <<name>>, "dataset")
               /\ UNCHANGED <<configVars, dataset_dir>>
          ELSE IF DatasetExists(config_data, name)
          THEN /\ ~fails
               /\ last' = Call(op, "ValueError", <<>>, 0, <<name>>, "dataset")
               /\ UNCHANGED <<configVars, dataset_dir>>
          ELSE IF ~fails
          THEN /\ config_data' = added
               /\ config_file' = added
               /\ dataset_dir' =
                     IF kind = "folder"
                     THEN WithTree(dataset_dir, name, source.files)
                     ELSE WithTree(dataset_dir, name,
                                   (IF name \in DOMAIN dataset_dir
                                    THEN dataset_dir[name] ELSE {}) \cup source.files)
               /\ last' = Call(op, "", <<info>>, 1, <<name>>, "dataset")
          ELSE /\ config_data' = Unregistered(added, name)
               /\ config_file' = config_data'
               /\ \E left \in (IF kind = "folder"
                                THEN FailedCopyLeaves(dataset_dir, name, source.files)
                                ELSE FailedExtractLeaves(dataset_dir, name, source.files)) :
                     dataset_dir' = IF RollbackDeletesFiles(kind)
                                    THEN RemoveTree(left, get_dataset(added, name).path)
                                    ELSE left
               /\ last' = Call(op, "RuntimeError", <<>>, 2, <<name>>, "dataset")
       /\ UNCHANGED nonDatasetVars

import_from_folder(source, name, dataset_type, description, fails) ==
    ImportDataset("folder", source, name, dataset_type, description, fails)

import_from_zip(source, name, dataset_type, description, fails) ==
    ImportDataset("zip", source, name, dataset_type, description, fails)

update_dataset(name, new_name, dataset_type, description) ==
    /\ Tick
    /\ IF ~DatasetExists(config_data, name)
       THEN /\ last' = Call("update_dataset", "ValueError", <<>>, 0, <<name>>, "dataset")
            /\ UNCHANGED configVars
       ELSE IF new_name # NoneVal /\ new_name # name /\ DatasetExists(config_data, new_name)
       THEN /\ last' = Call("update_dataset", "ValueError", <<>>, 0, <<name>>, "dataset")
            /\ UNCHANGED configVars
       ELSE LET old == get_dataset(config_data, name)
                new == DatasetInfo(IF new_name # NoneVal THEN new_name ELSE old.name,
                                   old.path,
                                   IF dataset_type # NoneVal THEN dataset_type
                                   ELSE old.dataset_type,
                                   IF description # NoneVal THEN description
                                   ELSE old.description)
                i == CHOOSE k \in 1..Len(config_data.datasets.detailed) :
                        /\ config_data.datasets.detailed[k].name = name
                        /\ \A j \in 1..(k - 1) : config_data.datasets.detailed[j].name # name
                cd1 == [config_data EXCEPT !.datasets.detailed[i] = DatasetInfoToDict(new)]
                cd2 == IF new_name # NoneVal /\ new_name # name
                       THEN config_add_dataset(config_remove_dataset(cd1, name), new_name)
                       ELSE cd1
            IN /\ config_data' = cd2
               /\ config_file' = cd2
               /\ last' = Call("update_dataset", "", <<>>, 1, <<name>>, "dataset")
    /\ UNCHANGED <<dataset_dir, nonDatasetVars>>

\* a migration started whenever the legacy list has names
NeedsMigration_LegacyOnly(cd) ==
    "datasets" \in DOMAIN cd /\ "available" \in DOMAIN cd.datasets
    /\ cd.datasets.available # <<>>

\* _load_datasets_from_config, lines 48-54: no typed entry, and legacy names
NeedsMigration(cd) ==
    /\ "datasets" \in DOMAIN cd
    /\ ("detailed" \in DOMAIN cd.datasets => cd.datasets.detailed = <<>>)
    /\ "available" \in DOMAIN cd.datasets
    /\ cd.datasets.available # <<>>

\* _migrate_simple_datasets: the typed list made of the legacy names
MigratedDatasets(cd) ==
    [i \in 1..Len(cd.datasets.available) |->
        DatasetInfoToDict(DatasetInfo(cd.datasets.available[i],
                                      DatasetPath(cd.datasets.available[i]),
                                      DatasetTypeOf(TaskTypeValue(ConfigTaskType(cd))),
                                      ""))]

\* _load_datasets_from_config, lines 56-60: the typed section is there
WithDatasetsSection(cd) ==
    IF "datasets" \notin DOMAIN cd
    THEN [k \in DOMAIN cd \cup {"datasets"} |->
            IF k = "datasets" THEN [available |-> <<>>, current |-> "", detailed |-> <<>>]
            ELSE cd[k]]
    ELSE IF "detailed" \notin DOMAIN cd.datasets
    THEN [cd EXCEPT !.datasets =
            [k \in DOMAIN @ \cup {"detailed"} |-> IF k = "detailed" THEN <<>> ELSE @[k]]]
    ELSE cd

\* ProjectConfig.current_dataset: the name, NoneVal for none
config_current_dataset(cd) ==
    LET current == GetIn(cd, "datasets", "current", "")
    IN IF current \in {"", NoneVal} THEN NoneVal ELSE current

\* the setter of ProjectConfig.current_dataset
config_set_current_dataset(cd, dataset_name) ==
    LET cd0 == IF "datasets" \in DOMAIN cd THEN cd
               ELSE Put(cd, "datasets", [available |-> <<>>, current |-> ""])
    IN [cd0 EXCEPT !.datasets =
            Put(@, "current", IF dataset_name \in {"", NoneVal} THEN "" ELSE dataset_name)]

\* a setter that takes every name
CurrentSettable_Always(cd, dataset_name) == TRUE

\* the setter of DatasetManager.current_dataset, line 366: no name, or the
\* name of a dataset
CurrentSettable(cd, dataset_name) ==
    dataset_name \in {"", NoneVal} \/ DatasetExists(cd, dataset_name)

\* dataset_manager.current_dataset = dataset_name
set_current_dataset(dataset_name) ==
    LET op == IF dataset_name = NoneVal THEN "clear_current_dataset"
              ELSE "set_current_dataset"
    IN /\ Tick
       /\ IF CurrentSettable(config_data, dataset_name)
          THEN /\ config_data' = config_set_current_dataset(config_data, dataset_name)
               /\ config_file' = config_data'
               /\ last' = Call(op, "", <<>>, 1, <<dataset_name>>, "dataset")
          ELSE /\ last' = Call(op, "ValueError", <<>>, 0, <<dataset_name>>, "dataset")
               /\ UNCHANGED configVars
       /\ UNCHANGED <<dataset_dir, nonDatasetVars>>

\* _load_datasets_from_config: the config it leaves and the number of saves
LoadDatasetsFromConfig(cd) ==
    IF NeedsMigration(cd)
    THEN [config |-> [cd EXCEPT !.datasets =
                        [k \in DOMAIN @ \cup {"detailed"} |->
                            IF k = "detailed" THEN MigratedDatasets(cd) ELSE @[k]]],
          saves |-> 1]
    ELSE [config |-> WithDatasetsSection(cd), saves |-> 0]

\* DatasetManager(project_config, project_path) over the project as it is
NewDatasetManager ==
    /\ Tick
    /\ LET r == LoadDatasetsFromConfig(config_data)
       IN /\ config_data' = r.config
          /\ config_file' = IF r.saves > 0 THEN r.config ELSE config_file
          /\ last' = Call("DatasetManager", "", <<>>, r.saves, <<>>, "dataset")
    /\ UNCHANGED <<dataset_dir, nonDatasetVars>>

\* config.add_dataset(dataset_name), the call of the legacy format
ConfigAddDataset(dataset_name) ==
    /\ Tick
    /\ config_live
    /\ config_data' = config_add_dataset(config_data, dataset_name)
    /\ last' = Call("config.add_dataset", "", <<>>, 0, <<dataset_name>>, "dataset")
    /\ UNCHANGED <<config_file, dataset_dir, nonDatasetVars>>

\* tomli_w.dump takes the document: it holds no None
TomlDumpable(cd) ==
    ~ ("datasets" \in DOMAIN cd /\ "current" \in DOMAIN cd.datasets
       /\ cd.datasets.current = NoneVal)

\* what tomli_w.dump has written when it raises at datasets.current: some of
\* the other sections, by the order of the dict, and the datasets table as
\* far as it got
TruncatedDumps(cd) ==
    LET others == {[k \in S |-> cd[k]] : S \in SUBSET (DOMAIN cd \ {"datasets"})}
    IN others \cup {Put(doc, "datasets", [available |-> cd.datasets.available]) :
                       doc \in others}

\* config.save(): mkdir of the parent, open(config_path, 'wb'), tomli_w.dump
ConfigSave ==
    /\ Tick
    /\ config_live
    /\ IF project_path = "file"
       THEN /\ last' = Call("config.save", "FileExistsError", <<>>, 1, <<>>, "")
            /\ UNCHANGED <<config_file, dirVars>>
       ELSE /\ project_path' = "dir"
            /\ subdirs' = IF project_path = "dir" THEN subdirs ELSE {}
            /\ config_kind' = "toml"
            /\ UNCHANGED config_live
            /\ IF TomlDumpable(config_data)
               THEN /\ config_file' = config_data
                    /\ last' = Call("config.save", "", <<>>, 1, <<>>, "")
               ELSE /\ config_file' \in TruncatedDumps(config_data)
                    /\ last' = Call("config.save", "TypeError", <<>>, 1, <<>>, "")
    /\ UNCHANGED <<config_data, modelVars, dataset_dir, planVars, backendVars>>

(* The inputs of the dataset registry *)

DatasetNames == {"coco", "voc"}
GivenDatasetTypes == {NoneVal, "SEGMENTATION"}
ImportSources ==
    {[exists |-> FALSE, files |-> {}],
     [exists |-> TRUE, files |-> {"img1"}],
     [exists |-> TRUE, files |-> {"img1", "img2"}]}

IdleModels ==
    /\ pretrain_dir = EmptyDir
    /\ model_dir = EmptyDir
    /\ mm_task_type = "DETECTION"

\* a project of some task type, its config saved, its dataset manager constructed
DatasetInit ==
    /\ \E t \in TaskTypeInputs :
         config_data = [DefaultConfig EXCEPT !.project.task_type = TaskTypeValue(t)]
    /\ config_file = config_data
    /\ dataset_dir = EmptyDir
    /\ IdleModels
    /\ IdlePlans
    /\ IdleBackends
    /\ IdleProjectDir
    /\ last = NoCall
    /\ steps = 0

DatasetNext ==
    \/ \E n \in DatasetNames, t \in GivenDatasetTypes : add_dataset(n, t, "")
    \/ \E n \in DatasetNames, del \in BOOLEAN : remove_dataset(n, del)
    \/ \E src \in ImportSources, n \in DatasetNames, fails \in BOOLEAN :
         import_from_folder(src, n, NoneVal, "", fails)
    \/ \E src \in ImportSources, n \in DatasetNames, fails \in BOOLEAN :
         import_from_zip(src, n, NoneVal, "", fails)
    \/ \E n \in DatasetNames, nn \in DatasetNames \cup {NoneVal}, d \in {NoneVal, "text"} :
         update_dataset(n, nn, NoneVal, d)
    \/ \E n \in DatasetNames \cup {NoneVal} : set_current_dataset(n)
    \/ \E n \in DatasetNames : ConfigAddDataset(n)
    \/ ConfigSave
    \/ NewDatasetManager

DatasetSpec == DatasetInit /\ [][DatasetNext]_vars

-----------------------------------------------------------------------------
(* Properties of the dataset registry, checked under DatasetSpec *)

DatasetAddOps == {"add_dataset", "import_from_folder", "import_from_zip"}
TypedNames(cd) == {cd.datasets.detailed[i].name : i \in 1..Len(cd.datasets.detailed)}

\* C5: add_dataset, import_from_folder and import_from_zip called with a name
\* that is already registered raise, and leave the config, in memory and on
\* disk, and the dataset directory as they are.
C5_DuplicateDatasetRejected ==
    [][(/\ last'.op \in DatasetAddOps
        /\ steps' = steps + 1
        /\ last'.dest[1] \in TypedNames(config_data))
       => (/\ last'.raised # ""
           /\ UNCHANGED <<config_data, config_file, dataset_dir>>)]_vars

\* an import from an existing archive refused for its name
C5_Witness ==
    /\ last.op = "import_from_zip"
    /\ last.raised = "ValueError"
    /\ last.dest[1] \in TypedNames(config_data)

FailedImport ==
    last.op \in {"import_from_folder", "import_from_zip"} /\ last.raised = "RuntimeError"

\* the name the last call was given is registered nowhere, on disk either
NameFreed ==
    /\ last.dest[1] \notin TypedNames(config_data)
    /\ last.dest[1] \notin SeqToSet(config_data.datasets.available)
    /\ config_file = config_data
    /\ last.op = "import_from_zip" => last.dest[1] \notin DOMAIN dataset_dir

\* C7: after an import whose copy or extract step failed, the entry it
\* registered is in neither the typed list nor the legacy list, the config on
\* disk says the same, and after import_from_zip the directory is gone; an
\* add or import of the same name that follows is not refused for the name.
C7_RollbackFreesName ==
    [][/\ FailedImport' => NameFreed'
       /\ (/\ FailedImport
           /\ steps' = steps + 1
           /\ last'.op \in DatasetAddOps
           /\ last'.dest = last.dest) => last'.raised # "ValueError"]_vars

\* a failed archive import, rolled back beside a dataset that stays
C7_Witness ==
    /\ last.op = "import_from_zip"
    /\ last.raised = "RuntimeError"
    /\ TypedNames(config_data) # {}

\* C26: a DatasetManager constructed over a config with legacy names and no
\* typed entry gives each legacy name one typed entry, with the path
\* dataset/<name>, the task type of the project and no description, and
\* saves the config; constructed again, it changes and saves nothing
C26_MigrationOnce ==
    [][(last'.op = "DatasetManager" /\ steps' = steps + 1) =>
         /\ (config_data.datasets.detailed = <<>> /\ config_data.datasets.available # <<>>) =>
               LET names == config_data.datasets.available
                   typed == config_data'.datasets.detailed
               IN /\ Len(typed) = Len(names)
                  /\ \A i \in 1..Len(names) :
                        /\ typed[i].name = names[i]
                        /\ typed[i].path = <<"dataset", names[i]>>
                        /\ typed[i].type = config_data.project.task_type
                        /\ typed[i].description = ""
                  /\ config_data'.datasets.available = names
                  /\ config_data'.project = config_data.project
                  /\ config_file' = config_data'
                  /\ last'.saves = 1
         /\ last.op = "DatasetManager" =>
               /\ UNCHANGED <<config_data, config_file, dataset_dir>>
               /\ last'.saves = 0]_vars

\* a second construction after one that migrated two legacy names
C26_Witness ==
    /\ last.op = "DatasetManager"
    /\ last.prev = "config.add_dataset"
    /\ last.saves = 1
    /\ Len(config_data.datasets.detailed) = 2

\* a construction that follows a construction that migrated
C26_WitnessAgain ==
    /\ last.op = "DatasetManager"
    /\ last.prev = "DatasetManager"
    /\ config_data.datasets.detailed # <<>>

\* C27: remove_dataset of a name that is not registered raises and leaves
\* the config, in memory and on disk, and the directories as they are; of a
\* registered name, it leaves the name in neither the typed list nor the
\* legacy list, the config saved, get_dataset(name) finding nothing, and
\* the directory of the dataset deleted if delete_files is true, every
\* directory as it was if not
C27_RemoveDataset ==
    [][(last'.op = "remove_dataset" /\ steps' = steps + 1) =>
         LET name == last'.dest[1]
             delete_files == last'.dest[2]
         IN IF name \notin TypedNames(config_data)
            THEN /\ last'.raised = "ValueError"
                 /\ UNCHANGED <<config_data, config_file, dataset_dir>>
            ELSE /\ last'.raised = ""
                 /\ name \notin TypedNames(config_data')
                 /\ name \notin SeqToSet(config_data'.datasets.available)
                 /\ ~DatasetExists(config_data', name)
                 /\ config_file' = config_data'
                 /\ LET dir == get_dataset(config_data, name).path[2]
                    IN IF delete_files
                       THEN /\ dir \notin DOMAIN dataset_dir'
                            /\ \A d \in DOMAIN dataset_dir \ {dir} :
                                  d \in DOMAIN dataset_dir' /\ dataset_dir'[d] = dataset_dir[d]
                       ELSE dataset_dir' = dataset_dir]_vars

\* a registered dataset removed with its files after an import, another
\* dataset staying
C27_Witness ==
    /\ last.op = "remove_dataset"
    /\ last.raised = ""
    /\ last.dest[2] = TRUE
    /\ last.prev \in {"import_from_folder", "import_from_zip"}
    /\ TypedNames(config_data) # {}
    /\ last.dest[1] \notin DOMAIN dataset_dir

\* Project.get_datasets: the directories of dataset/
ProjectGetDatasets(dirs) == DOMAIN dirs

\* C31: after an import whose copy or extract step failed, the name has no
\* entry in the config and no directory under dataset/
C31_FailedImportLeavesNothing ==
    FailedImport =>
        /\ last.dest[1] \notin TypedNames(config_data)
        /\ last.dest[1] \notin ProjectGetDatasets(dataset_dir)

\* C32: every dataset entry has the path dataset/<its name>, and no two
\* entries have the same path
C32_CanonicalPaths ==
    LET typed == config_data.datasets.detailed
    IN /\ \A i \in 1..Len(typed) : typed[i].path = <<"dataset", typed[i].name>>
       /\ \A i, j \in 1..Len(typed) : i # j => typed[i].path # typed[j].path

\* C40: the current dataset is unset or the name of a registered dataset;
\* setting it to a name that is not registered raises and changes nothing;
\* removing the dataset that is current unsets it
C40_CurrentIsRegistered ==
    [][/\ config_current_dataset(config_data') \in TypedNames(config_data') \cup {NoneVal}
       /\ (/\ last'.op = "set_current_dataset"
           /\ steps' = steps + 1
           /\ last'.dest[1] \notin TypedNames(config_data)) =>
              (last'.raised = "ValueError" /\ UNCHANGED <<configVars, dataset_dir>>)
       /\ (/\ last'.op = "remove_dataset"
           /\ steps' = steps + 1
           /\ last'.raised = ""
           /\ config_current_dataset(config_data) = last'.dest[1]) =>
              (/\ config_current_dataset(config_data') = NoneVal
               /\ config_current_dataset(config_file') = NoneVal)]_vars

\* the one dataset of the project, made current, then removed
C40_Witness ==
    /\ last.op = "remove_dataset"
    /\ last.prev = "set_current_dataset"
    /\ last.raised = ""
    /\ TypedNames(config_data) = {}
    /\ "current" \in DOMAIN config_data.datasets
    /\ config_current_dataset(config_data) = NoneVal

-----------------------------------------------------------------------------
(* enums/dataset_target.py, dataset_config.py, training_parameters.py,      *)
(* validation_parameters.py, training_results.py                            *)

DatasetTargetValue(t) ==
    CASE t = "TRAIN" -> "train"
      [] t = "VAL" -> "val"
      [] t = "TEST" -> "test"
      [] t = "MIXED" -> "mixed"
      [] t = "UNUSED" -> "unused"

DatasetTarget == {"TRAIN", "VAL", "TEST", "MIXED", "UNUSED"}

DatasetTargetOf(v) == CHOOSE t \in DatasetTarget : DatasetTargetValue(t) = v

DatasetConfigToDict(d) == [name |-> d.name, target |-> DatasetTargetValue(d.target)]

DatasetConfigFromDict(d) == [name |-> d.name, target |-> DatasetTargetOf(d.target)]

\* floats are written as strings
TrainingParameters ==
    [epochs |-> 100, learning_rate |-> "0.01", input_size |-> 640, batch_size |-> 16,
     extra_params |-> [k \in {} |-> 0]]

TrainingFields == {"epochs", "learning_rate", "input_size", "batch_size", "extra_params"}

TrainingToDict(t) == [k \in TrainingFields |-> t[k]]

\* data.get(key, default) for each field
TrainingFromDict(d) ==
    [k \in TrainingFields |-> IF k \in DOMAIN d THEN d[k] ELSE TrainingParameters[k]]

ValidationParameters == [confidence_threshold |-> "0.25", iou_threshold |-> "0.45"]

ValidationToDict(v) == [k \in {"confidence_threshold", "iou_threshold"} |-> v[k]]

ValidationFromDict(d) ==
    [k \in {"confidence_threshold", "iou_threshold"} |->
        IF k \in DOMAIN d THEN d[k] ELSE ValidationParameters[k]]

TrainingResults == [best_model |-> NoneVal, latest_model |-> NoneVal]

\* only the models that are set are written
ResultsToDict(r) ==
    [k \in {x \in {"best_model", "latest_model"} : r[x] # NoneVal} |-> r[k]]

ResultsFromDict(d) ==
    [k \in {"best_model", "latest_model"} |-> IF k \in DOMAIN d THEN d[k] ELSE NoneVal]

-----------------------------------------------------------------------------
(* plan_context.py *)

\* PlanContext.__init__
PlanContext(plan_id, name, task_type, pretrained_model, now) ==
    [plan_id |-> plan_id, name |-> name, task_type |-> task_type,
     pretrained_model |-> pretrained_model,
     training_params |-> TrainingParameters,
     validation_params |-> ValidationParameters,
     datasets |-> <<>>,
     results |-> TrainingResults,
     created_at |-> now, updated_at |-> now]

\* plan_file: model/<plan_id>.toml
PlanFile(plan_id) == <<plan_id, "toml">>

\* a save that writes the dataset bindings in reverse
PlanDatasetsToToml_Reversed(ds) ==
    [i \in 1..Len(ds) |-> DatasetConfigToDict(ds[Len(ds) + 1 - i])]

\* [d.to_dict() for d in self.datasets]
PlanDatasetsToToml(ds) == [i \in 1..Len(ds) |-> DatasetConfigToDict(ds[i])]

\* the "plan" table save() writes: pretrained_model only if it is not None
PlanTable(p) ==
    [k \in {"name", "task_type", "created_at", "updated_at"}
           \cup (IF p.pretrained_model # NoneVal THEN {"pretrained_model"} ELSE {}) |->
        CASE k = "name" -> p.name
          [] k = "task_type" -> TaskTypeValue(p.task_type)
          [] k = "created_at" -> p.created_at
          [] k = "updated_at" -> p.updated_at
          [] k = "pretrained_model" -> p.pretrained_model]

\* the document save() writes, the plan's updated_at already refreshed
PlanToToml(p) ==
    [plan |-> PlanTable(p),
     training |-> TrainingToDict(p.training_params),
     validation |-> ValidationToDict(p.validation_params),
     datasets |-> PlanDatasetsToToml(p.datasets),
     results |-> ResultsToDict(p.results)]

\* PlanContext.load_from_file of a parseable file
load_from_file(file, data, now) ==
    [plan_id |-> file[1],
     name |-> data.plan["name"],
     task_type |-> TaskTypeOf(data.plan["task_type"]),
     pretrained_model |-> IF "pretrained_model" \in DOMAIN data.plan
                          THEN data.plan["pretrained_model"] ELSE NoneVal,
     training_params |-> IF "training" \in DOMAIN data
                         THEN TrainingFromDict(data.training) ELSE TrainingParameters,
     validation_params |-> IF "validation" \in DOMAIN data
                           THEN ValidationFromDict(data.validation) ELSE ValidationParameters,
     datasets |-> IF "datasets" \in DOMAIN data
                  THEN [i \in 1..Len(data.datasets) |-> DatasetConfigFromDict(data.datasets[i])]
                  ELSE <<>>,
     results |-> IF "results" \in DOMAIN data
                 THEN ResultsFromDict(data.results) ELSE TrainingResults,
     created_at |-> IF "created_at" \in DOMAIN data.plan THEN data.plan["created_at"] ELSE now,
     updated_at |-> IF "updated_at" \in DOMAIN data.plan THEN data.plan["updated_at"] ELSE now]

\* a load that raises on every file
LoadFromFileRaises_Always(data) == TRUE

\* PlanContext.load_from_file raises ValueError: tomllib.load, a missing
\* key of the plan table, TaskType(value) or DatasetConfig.from_dict raised
LoadFromFileRaises(data) ==
    \/ data = NoToml
    \/ "plan" \notin DOMAIN data
    \/ "name" \notin DOMAIN data.plan
    \/ "task_type" \notin DOMAIN data.plan
    \/ data.plan["task_type"] \notin {TaskTypeValue(t) : t \in TaskType}
    \/ /\ "datasets" \in DOMAIN data
       /\ \E i \in 1..Len(data.datasets) :
            \/ {"name", "target"} \ DOMAIN data.datasets[i] # {}
            \/ data.datasets[i].target \notin {DatasetTargetValue(t) : t \in DatasetTarget}

\* a save that leaves the timestamp as it is
Saved_KeepsTimestamp(p, now) == p

\* PlanContext.save(): the plan with its timestamp refreshed
Saved(p, now) == [p EXCEPT !.updated_at = now]

\* an add_dataset that keeps the binding the name already has
PlanAddDataset_Append(p, dataset_name, target) ==
    [p EXCEPT !.datasets = Append(@, [name |-> dataset_name, target |-> target])]

\* PlanContext.add_dataset
PlanAddDataset(p, dataset_name, target) ==
    [p EXCEPT !.datasets =
        Append(SelectSeq(@, LAMBDA d : d.name # dataset_name),
               [name |-> dataset_name, target |-> target])]

\* PlanContext.remove_dataset
PlanRemoveDataset(p, dataset_name) ==
    [p EXCEPT !.datasets = SelectSeq(@, LAMBDA d : d.name # dataset_name)]

\* PlanContext.update_training_params(key=value)
PlanUpdateTrainingParam(p, key, value) ==
    IF key \in TrainingFields
    THEN [p EXCEPT !.training_params[key] = value]
    ELSE [p EXCEPT !.training_params.extra_params =
            [k \in DOMAIN @ \cup {key} |-> IF k = key THEN value ELSE @[k]]]

\* PlanContext.set_results
PlanSetResults(p, best_model, latest_model) ==
    [p EXCEPT !.results.best_model = IF best_model # NoneVal THEN best_model ELSE @,
              !.results.latest_model = IF latest_model # NoneVal THEN latest_model ELSE @]

-----------------------------------------------------------------------------
(* project_plan_manager.py *)

nonPlanVars == <<modelVars, datasetVars, backendVars, dirVars>>

\* a check that finds no plan of that name
PlanNameTaken_Never(cache, name) == FALSE

\* create_plan, lines 71-73
PlanNameTaken(cache, name) == \E id \in DOMAIN cache : cache[id].name = name

\* _load_all_plans: a file load_from_file raises on is passed over
LoadAllPlans(files, now) ==
    [id \in {f[1] : f \in {g \in DOMAIN files : ~LoadFromFileRaises(files[g])}} |->
        load_from_file(PlanFile(id), files[PlanFile(id)], now)]

create_plan(name, pretrained_model) ==
    /\ Tick
    /\ IF PlanNameTaken(plans_cache, name)
       THEN /\ last' = Call("create_plan", "ValueError", <<>>, 0, <<name>>, "plan")
            /\ UNCHANGED <<plan_files, plans_cache, uuid_count>>
       ELSE LET plan_id == uuid_count + 1
                plan == Saved(PlanContext(plan_id, name, pm_task_type, pretrained_model, Now),
                              Now)
            IN /\ uuid_count' = plan_id
               /\ plan_files' = Put(plan_files, PlanFile(plan_id), PlanToToml(plan))
               /\ plans_cache' = Put(plans_cache, plan_id, plan)
               /\ last' = Call("create_plan", "", <<plan_id>>, 0, <<name>>, "plan")
    /\ UNCHANGED <<configVars, pm_task_type, nonPlanVars>>

delete_plan(plan_id) ==
    /\ Tick
    /\ IF plan_id \in DOMAIN plans_cache
       THEN /\ plan_files' = Drop(plan_files, PlanFile(plan_id))
            /\ plans_cache' = Drop(plans_cache, plan_id)
            /\ last' = Call("delete_plan", "", <<TRUE>>, 0, <<plan_id>>, "plan")
       ELSE /\ last' = Call("delete_plan", "", <<FALSE>>, 0, <<plan_id>>, "plan")
            /\ UNCHANGED <<plan_files, plans_cache>>
    /\ UNCHANGED <<configVars, pm_task_type, uuid_count, nonPlanVars>>

update_plan(plan_id) ==
    /\ Tick
    /\ IF plan_id \in DOMAIN plans_cache
       THEN LET plan == Saved(plans_cache[plan_id], Now)
            IN /\ plan_files' = Put(plan_files, PlanFile(plan_id), PlanToToml(plan))
               /\ plans_cache' = Put(plans_cache, plan_id, plan)
               /\ last' = Call("update_plan", "", <<TRUE>>, 0, <<plan_id>>, "plan")
       ELSE /\ last' = Call("update_plan", "", <<FALSE>>, 0, <<plan_id>>, "plan")
            /\ UNCHANGED <<plan_files, plans_cache>>
    /\ UNCHANGED <<configVars, pm_task_type, uuid_count, nonPlanVars>>

\* the caller changes a plan it holds: new is the plan after the change
EditPlan(plan_id, new) ==
    /\ Tick
    /\ plan_id \in DOMAIN plans_cache
    /\ new # plans_cache[plan_id]
    /\ plans_cache' = Put(plans_cache, plan_id, new)
    /\ last' = Call("edit_plan", "", <<>>, 0, <<plan_id>>, "plan")
    /\ UNCHANGED <<configVars, plan_files, pm_task_type, uuid_count, nonPlanVars>>

\* the edits of a plan the behaviours draw from
PlanEdits(p) ==
    {PlanAddDataset(p, n, t) : n \in {"coco", "voc"}, t \in {"TRAIN", "MIXED"}}
    \cup {PlanAddDataset(PlanAddDataset(p, "voc", "VAL"), "coco", "TEST")}
    \cup {PlanRemoveDataset(p, "coco")}
    \cup {PlanUpdateTrainingParam(p, "epochs", 50), PlanUpdateTrainingParam(p, "patience", 5)}
    \cup {PlanSetResults(p, "best.pt", NoneVal), PlanSetResults(p, NoneVal, "last.pt")}

\* plan.add_dataset(dataset_name, target) on the plan get_plan(plan_id) gave
plan_add_dataset(plan_id, dataset_name, target) ==
    /\ Tick
    /\ plan_id \in DOMAIN plans_cache
    /\ plans_cache' = Put(plans_cache, plan_id,
                          PlanAddDataset(plans_cache[plan_id], dataset_name, target))
    /\ last' = Call("plan_add_dataset", "", <<plan_id>>, 0, <<dataset_name, target>>, "plan")
    /\ UNCHANGED <<configVars, plan_files, pm_task_type, uuid_count, nonPlanVars>>

\* plan.remove_dataset(dataset_name) on the plan get_plan(plan_id) gave
plan_remove_dataset(plan_id, dataset_name) ==
    /\ Tick
    /\ plan_id \in DOMAIN plans_cache
    /\ plans_cache' = Put(plans_cache, plan_id,
                          PlanRemoveDataset(plans_cache[plan_id], dataset_name))
    /\ last' = Call("plan_remove_dataset", "", <<plan_id>>, 0, <<dataset_name>>, "plan")
    /\ UNCHANGED <<configVars, plan_files, pm_task_type, uuid_count, nonPlanVars>>

\* the dataset names and targets the bindings are made of
BoundNames == {"coco", "voc"}
BoundTargets == {"TRAIN", "MIXED"}

\* ProjectPlanManager.__init__ over the project as it is
NewPlanManager ==
    /\ Tick
    /\ pm_task_type' = ConfigTaskType(config_data)
    /\ plans_cache' = LoadAllPlans(plan_files, Now)
    /\ last' = Call("ProjectPlanManager", "", <<>>, 0, <<>>, "plan")
    /\ UNCHANGED <<configVars, plan_files, uuid_count, nonPlanVars>>

\* model/<plan_id>.toml is written, from outside the manager, with doc
DamagePlanFile(plan_id, doc) ==
    /\ Tick
    /\ plan_files' = Put(plan_files, PlanFile(plan_id), doc)
    /\ plan_files' # plan_files
    /\ last' = Call("damage_plan_file", "", <<>>, 0, <<plan_id>>, "plan")
    /\ UNCHANGED <<configVars, plans_cache, pm_task_type, uuid_count, nonPlanVars>>

(* The inputs of the plan store *)

\* what a damaged plan file holds: text that is no TOML, a document without
\* plan table, a plan table without name, a task type that is none, a
\* dataset binding with a target that is none
DamagedPlanDocs ==
    {NoToml,
     [training |-> TrainingToDict(TrainingParameters)],
     [plan |-> [task_type |-> "detection"]],
     [plan |-> [name |-> "exp", task_type |-> "pose"]],
     [plan |-> [name |-> "exp", task_type |-> "detection"],
      datasets |-> <<[name |-> "coco", target |-> "all"]>>]}

PlanNames == {"baseline", "exp"}
PretrainedRefs == {NoneVal, "pretrain/yolo11n.pt"}
PlanIds == 1..MaxOps

\* a project of some task type, its config saved, its plan manager constructed
PlanInit ==
    /\ \E t \in TaskTypeInputs :
         /\ config_data = [DefaultConfig EXCEPT !.project.task_type = TaskTypeValue(t)]
         /\ pm_task_type = t
    /\ config_file = config_data
    /\ plan_files = EmptyDir
    /\ plans_cache = EmptyDir
    /\ uuid_count = 0
    /\ IdleModels
    /\ IdleDatasets
    /\ IdleBackends
    /\ IdleProjectDir
    /\ last = NoCall
    /\ steps = 0

PlanNext ==
    \/ \E n \in PlanNames, m \in PretrainedRefs : create_plan(n, m)
    \/ \E id \in PlanIds : delete_plan(id)
    \/ \E id \in PlanIds : update_plan(id)
    \/ \E id \in DOMAIN plans_cache : \E new \in PlanEdits(plans_cache[id]) : EditPlan(id, new)
    \/ \E id \in DOMAIN plans_cache, n \in BoundNames, t \in BoundTargets :
         plan_add_dataset(id, n, t)
    \/ \E id \in DOMAIN plans_cache, n \in BoundNames : plan_remove_dataset(id, n)
    \/ NewPlanManager
    \/ \E id \in PlanIds, doc \in DamagedPlanDocs : DamagePlanFile(id, doc)

PlanSpec == PlanInit /\ [][PlanNext]_vars

\* the entries of the config for the file: its detailed records and its
\* place in the available list
EntriesFor(cd, f) ==
    {m \in SeqToSet(cd.models.detailed) : m.filename = f}
    \cup {x \in SeqToSet(cd.models.available) : x = f}

-----------------------------------------------------------------------------
(* Properties of the plan store, checked under PlanSpec *)

PlanNamesOf(cache) == {cache[id].name : id \in DOMAIN cache}

\* C6: no two plans the manager holds have the same name; create_plan with a
\* name a held plan has raises ValueError and changes neither the cache nor
\* the plan files; with any other name, also one a deleted plan had, it
\* succeeds and the manager holds the new plan under that name
C6_PlanNameUnique ==
    [][/\ Cardinality(PlanNamesOf(plans_cache')) = Cardinality(DOMAIN plans_cache')
       /\ (last'.op = "create_plan" /\ steps' = steps + 1) =>
            IF last'.dest[1] \in PlanNamesOf(plans_cache)
            THEN /\ last'.raised = "ValueError"
                 /\ UNCHANGED <<plans_cache, plan_files>>
            ELSE /\ last'.raised = ""
                 /\ last'.ret[1] \notin DOMAIN plans_cache
                 /\ plans_cache'[last'.ret[1]].name = last'.dest[1]
                 /\ PlanFile(last'.ret[1]) \in DOMAIN plan_files']_vars

\* a create_plan refused because a plan that is held has the name
C6_Witness ==
    /\ last.op = "create_plan"
    /\ last.raised = "ValueError"
    /\ last.dest[1] \in PlanNamesOf(plans_cache)

\* plan_details of the config: the summaries of its plans index
PlanSummaries(cd) ==
    {[plan_id |-> cd.plans.detailed[i].plan_id, name |-> cd.plans.detailed[i].name] :
        i \in 1..Len(cd.plans.detailed)}

\* the summaries the plan files call for
PlanFileSummaries(files) ==
    {[plan_id |-> f[1], name |-> files[f].plan["name"]] : f \in DOMAIN files}

\* C8: after create_plan, update_plan or delete_plan the plans index of the
\* config lists exactly the plans that have a file, under their names
C8_PlanIndexConsistent ==
    (last.op \in {"create_plan", "update_plan", "delete_plan"} /\ last.raised = "")
    => PlanSummaries(config_data) = PlanFileSummaries(plan_files)

\* C37: a plan manager constructed over the plan directory does not raise
\* and holds, under its plan_id, every plan whose file parses and no other:
\* a damaged file is passed over and keeps no other file from loading
C37_LoadSkipsUnparseable ==
    last.op = "ProjectPlanManager" =>
        /\ last.raised = ""
        /\ DOMAIN plans_cache
           = {f[1] : f \in {g \in DOMAIN plan_files : plan_files[g] \notin DamagedPlanDocs}}
        /\ \A id \in DOMAIN plans_cache :
             /\ plans_cache[id].plan_id = id
             /\ plans_cache[id].name = plan_files[PlanFile(id)].plan["name"]

\* a manager constructed over a directory with a plan file that parses and
\* one that does not
C37_Witness ==
    /\ last.op = "ProjectPlanManager"
    /\ plans_cache # EmptyDir
    /\ \E f \in DOMAIN plan_files : plan_files[f] \in DamagedPlanDocs

\* C38: the save() of a plan (update_plan of a plan that is held) writes the
\* file of that plan with updated_at set to the time of the save, later
\* than before, its plan_id and created_at as they were; the config, in
\* memory and on disk, and the files of the other plans stay as they are
C38_SaveWritesOwnFile ==
    [][(last'.op = "update_plan" /\ steps' = steps + 1 /\ last'.ret = <<TRUE>>) =>
         LET id == last'.dest[1]
         IN /\ PlanFile(id) \in DOMAIN plan_files'
            /\ plan_files'[PlanFile(id)].plan["updated_at"] = Now
            /\ plans_cache'[id].updated_at = Now
            /\ plans_cache'[id].updated_at > plans_cache[id].updated_at
            /\ plans_cache'[id].plan_id = plans_cache[id].plan_id
            /\ plans_cache'[id].created_at = plans_cache[id].created_at
            /\ plan_files'[PlanFile(id)].plan["created_at"] = plans_cache[id].created_at
            /\ DOMAIN plan_files' \ {PlanFile(id)} = DOMAIN plan_files \ {PlanFile(id)}
            /\ \A f \in DOMAIN plan_files \ {PlanFile(id)} : plan_files'[f] = plan_files[f]
            /\ UNCHANGED <<config_data, config_file>>]_vars

\* a plan saved while another plan has a file, the config's index listing
\* neither
C38_Witness ==
    /\ last.op = "update_plan"
    /\ last.ret = <<TRUE>>
    /\ Cardinality(DOMAIN plan_files) >= 2
    /\ plans_cache[last.dest[1]].updated_at > plans_cache[last.dest[1]].created_at
    /\ PlanSummaries(config_data) = {}

\* the fields of a plan the round trip keeps
PlanContent(p) ==
    [plan_id |-> p.plan_id, name |-> p.name, task_type |-> p.task_type,
     pretrained_model |-> p.pretrained_model,
     training_params |-> p.training_params,
     validation_params |-> p.validation_params,
     datasets |-> p.datasets, results |-> p.results]

\* the plan the last create_plan or update_plan saved
SavedPlanId == IF last.op = "create_plan" THEN last.ret[1] ELSE last.dest[1]

PlanWasSaved ==
    \/ last.op = "create_plan" /\ last.raised = ""
    \/ last.op = "update_plan" /\ last.ret = <<TRUE>>

\* C9: the file a successful save wrote loads as a plan with the same id,
\* name, task type, pretrained model, training parameters (extra ones
\* included), validation parameters, dataset bindings in order, and results
C9_SaveLoadRoundTrip ==
    PlanWasSaved =>
        /\ PlanFile(SavedPlanId) \in DOMAIN plan_files
        /\ PlanContent(load_from_file(PlanFile(SavedPlanId),
                                      plan_files[PlanFile(SavedPlanId)], Now))
           = PlanContent(plans_cache[SavedPlanId])

\* a plan with a pretrained model and two bindings not in alphabetical order
C9_Witness ==
    /\ PlanWasSaved
    /\ last.op = "update_plan"
    /\ plans_cache[SavedPlanId].pretrained_model # NoneVal
    /\ Len(plans_cache[SavedPlanId].datasets) = 2
    /\ plans_cache[SavedPlanId].datasets[1].target # "TRAIN"

\* the bindings of a plan for names other than the one given
OtherBindings(ds, name) == SelectSeq(ds, LAMBDA d : d.name # name)

\* C24: every plan holds at most one binding per dataset name, and after
\* add_dataset(name, target) the plan has exactly one binding for name, with
\* that target, the bindings of the other names being as they were
C24_OneBindingPerDataset ==
    [][/\ \A id \in DOMAIN plans_cache' :
            \A i, j \in 1..Len(plans_cache'[id].datasets) :
                i # j => plans_cache'[id].datasets[i].name # plans_cache'[id].datasets[j].name
       /\ (last'.op = "plan_add_dataset" /\ steps' = steps + 1) =>
            LET id == last'.ret[1]
                old == plans_cache[id].datasets
                new == plans_cache'[id].datasets
                name == last'.dest[1]
            IN /\ Cardinality({i \in 1..Len(new) : new[i].name = name}) = 1
               /\ \A i \in 1..Len(new) : new[i].name = name => new[i].target = last'.dest[2]
               /\ OtherBindings(new, name) = OtherBindings(old, name)]_vars

\* add_dataset for a name bound to another target, in a plan that binds a
\* second name
C24_Witness ==
    /\ last.op = "plan_add_dataset"
    /\ last.prev = "edit_plan"
    /\ last.dest = <<"coco", "MIXED">>
    /\ Len(plans_cache[last.ret[1]].datasets) = 2

-----------------------------------------------------------------------------
(* project.py: the project Project.create_new returns *)

\* Project.create_new(path, name, task_type): the managers are constructed
\* over the default config, then the config is given its task type and saved
ProjectInit ==
    /\ \E task_type \in TaskTypeInputs :
         /\ mm_task_type = ConfigTaskType(DefaultConfig)
         /\ pm_task_type = ConfigTaskType(DefaultConfig)
         /\ config_data = [DefaultConfig EXCEPT !.project.task_type = TaskTypeValue(task_type)]
    /\ config_file = config_data
    /\ pretrain_dir = EmptyDir
    /\ model_dir = EmptyDir
    /\ dataset_dir = EmptyDir
    /\ plan_files = EmptyDir
    /\ plans_cache = EmptyDir
    /\ uuid_count = 0
    /\ IdleBackends
    /\ IdleProjectDir
    /\ last = NoCall
    /\ steps = 0

\* the calls on project.plan_manager and project.model_manager
ProjectNext ==
    \/ \E n \in PlanNames, m \in PretrainedRefs : create_plan(n, m)
    \/ \E id \in PlanIds : delete_plan(id)
    \/ get_pretrained_models
    \/ get_trained_models
    \/ \E b \in Buckets, files \in SUBSET FileNames : ExternalChange(b, files)

ProjectSpec == ProjectInit /\ [][ProjectNext]_vars

\* C10: in the project create_new returned, every plan create_plan made and
\* every model entry the model manager synthesized has the project's task type
C10_TaskTypePropagates ==
    /\ \A id \in DOMAIN plans_cache :
         plans_cache[id].task_type = ConfigTaskType(config_data)
    /\ \A i \in 1..Len(config_data.models.detailed) :
         model_details(config_data)[i].task_type = ConfigTaskType(config_data)

-----------------------------------------------------------------------------
(* start_up/model_info.py, start_up/model_selector.py *)

ModelInfo(name, filename, parameters, supported_tasks, description, from_backend) ==
    [name |-> name, filename |-> filename, parameters |-> parameters,
     supported_tasks |-> supported_tasks, description |-> description,
     from_backend |-> from_backend]

\* the index of the first entry with the filename, 0 if there is none
FirstWithFilename(models, filename) ==
    IF \E i \in 1..Len(models) : models[i].filename = filename
    THEN CHOOSE i \in 1..Len(models) :
            /\ models[i].filename = filename
            /\ \A j \in 1..(i - 1) : models[j].filename # filename
    ELSE 0

RemoveAt(s, i) == SubSeq(s, 1, i - 1) \o SubSeq(s, i + 1, Len(s))

\* ModelSelector.register_model
RegisterModel(models, model_info) ==
    LET i == FirstWithFilename(models, model_info.filename)
    IN Append(IF i = 0 THEN models ELSE RemoveAt(models, i), model_info)

\* ModelSelector.get_model_by_filename: <<the model>>, or <<>> for None
get_model_by_filename(models, filename) ==
    LET i == FirstWithFilename(models, filename)
    IN IF i = 0 THEN <<>> ELSE <<models[i]>>

\* the models _register_default_models registers first, one per suffix
BuiltinModels ==
    <<ModelInfo("YOLO 11 Nano - detect", "yolo11n.pt", "2.6M", {"DETECTION"},
                "builtin", NoneVal),
      ModelInfo("YOLO 11 Nano - classify", "yolo11n-cls.pt", "2.6M", {"CLASSIFICATION"},
                "builtin", NoneVal),
      ModelInfo("YOLO 11 Nano - segment", "yolo11n-seg.pt", "2.7M",
                {"SEGMENTATION", "INSTANCE_SEGMENTATION"}, "builtin", NoneVal)>>

RECURSIVE RegisterAll(_, _)
RegisterAll(models, new) ==
    IF new = <<>> THEN models
    ELSE RegisterAll(RegisterModel(models, Head(new)), Tail(new))

\* _register_default_models
DefaultModels == RegisterAll(<<>>, BuiltinModels)

\* "not m.from_backend": None and the empty string are false
FromBackend(m) == m.from_backend \notin {NoneVal, ""}

\* _sync_from_backend_manager: the loop visits the set in the order given
SyncFromBackendManager(models, order) == models \o order

\* refresh_models, line 267
WithoutBackendModels(models) == SelectSeq(models, LAMBDA m : ~FromBackend(m))

-----------------------------------------------------------------------------
(* backend/backend_info.py and the sidecar file *)

\* BackendInfo(name, version, version_code, author, module_path, is_installed)
BackendInfo(name, version, version_code, author, module_path, is_installed) ==
    [name |-> name, version |-> version, version_code |-> version_code,
     author |-> author, description |-> NoneVal, is_available |-> FALSE,
     executable |-> "", available_tasks |-> {}, available_models |-> {},
     module_path |-> module_path, is_installed |-> is_installed, instance |-> NoneVal]

\* BackendInfo.from_backend: backend is the live instance, dir its directory
BackendInfoFromBackend(backend, dir, module_path) ==
    [name |-> backend.name, version |-> backend.version,
     version_code |-> backend.version_code, author |-> backend.author,
     description |-> backend.description, is_available |-> backend.is_available,
     executable |-> backend.executable,
     available_tasks |-> backend.available_tasks,
     available_models |-> backend.available_models,
     module_path |-> module_path, is_installed |-> TRUE, instance |-> dir]

\* BackendInfo.to_dict
BackendInfoToDict(info) ==
    [name |-> info.name, version |-> info.version, version_code |-> info.version_code,
     author |-> info.author, description |-> info.description,
     executable |-> info.executable,
     available_tasks |-> {TaskTypeValue(t) : t \in info.available_tasks},
     module_path |-> info.module_path, is_installed |-> info.is_installed]

\* the fields of a BackendInfo that can hold None
OptionalKeys == {"description", "module_path"}

\* toml.dump: a key whose value is None is not written
TomlDump(data) ==
    [k \in {x \in DOMAIN data : ~(x \in OptionalKeys /\ data[x] = NoneVal)} |-> data[k]]

\* a dump that never writes the installed flag
TomlOfBackendInfo_NoFlag(info) ==
    LET d == TomlDump(BackendInfoToDict(info))
    IN [k \in DOMAIN d \ {"is_installed"} |-> d[k]]

\* _save_backend_info_to_toml: the document written
TomlOfBackendInfo(info) == TomlDump(BackendInfoToDict(info))

\* data.get(key, default)
Get(data, key, default) == IF key \in DOMAIN data THEN data[key] ELSE default

\* _load_backend_info_from_toml
BackendInfoFromToml(data) ==
    [name |-> Get(data, "name", ""), version |-> Get(data, "version", ""),
     version_code |-> Get(data, "version_code", 0), author |-> Get(data, "author", ""),
     description |-> Get(data, "description", NoneVal), is_available |-> FALSE,
     executable |-> Get(data, "executable", ""),
     available_tasks |-> {TaskTypeOf(v) : v \in Get(data, "available_tasks", {})},
     available_models |-> {},
     module_path |-> Get(data, "module_path", NoneVal),
     is_installed |-> Get(data, "is_installed", FALSE), instance |-> NoneVal]

-----------------------------------------------------------------------------
(* The backends root directory: what the behaviours find there *)

\* the object YoloflowBackendModule() of a backend directory gives
Backend(name, version, is_available, available_tasks, available_models) ==
    [name |-> name, version |-> version, version_code |-> 100, author |-> "author",
     description |-> "", is_available |-> is_available, executable |-> "run",
     available_tasks |-> available_tasks, available_models |-> available_models]

\* a backend model with the filename of a built-in model
UltraNano ==
    ModelInfo("Ultralytics Nano", "yolo11n.pt", "2.6M", {"DETECTION"}, "backend",
              "ultralytics")

\* a backend model declared without from_backend
UltraCustom ==
    ModelInfo("Custom", "custom.pt", "9M", {"DETECTION", "SEGMENTATION"}, "backend",
              NoneVal)

LegacyCls ==
    ModelInfo("Legacy", "legacy-cls.pt", "1M", {"CLASSIFICATION"}, "backend", "legacy")

\* the subdirectories of the backends root
BackendDirs == {"ultralytics", "legacy", "broken", "docs"}

\* <dir>/__init__.py exists
HasInit(dir) == dir # "docs"

\* <dir>/__init__.py defines YoloflowBackendModule
HasBackendClass(dir) == dir \in {"ultralytics", "legacy"}

\* <dir>/pyproject.toml exists
HasPyproject(dir) == dir \in {"ultralytics", "legacy"}

\* the instance a load of the directory creates
BackendOf(dir) ==
    IF dir = "ultralytics"
    THEN Backend("Ultralytics YOLO", "1.0.0", TRUE, {"DETECTION", "SEGMENTATION"},
                 {UltraNano, UltraCustom})
    ELSE Backend("Legacy", "0.1.0", FALSE, {"CLASSIFICATION"}, {LegacyCls})

\* str(backend_dir)
ModulePath(dir) == dir

\* the names the calls are given: the directories and a name that is none
BackendNames == BackendDirs \cup {"ghost"}

-----------------------------------------------------------------------------
(* service/backend_manager.py *)

nonBackendVars == <<configVars, modelVars, datasetVars, planVars, dirVars>>

\* no install_backend_dependencies call is under way
NoInstall == [pc |-> "idle", name |-> "", outcome |-> FALSE, callbacks |-> 0, trace |-> <<>>]

\* toml.load(f) raises on the file
TomlLoadRaises(file) == file = NoToml

\* _scan_backend_directories over an empty _backend_infos: a sidecar file
\* that does not load leaves the directory without a descriptor (line 62)
ScanBackendDirectories(files) ==
    [dir \in {d \in BackendDirs :
                HasInit(d) /\ ~(d \in DOMAIN files /\ TomlLoadRaises(files[d]))} |->
        IF dir \in DOMAIN files
        THEN [BackendInfoFromToml(files[dir]) EXCEPT !.module_path = ModulePath(dir)]
        ELSE BackendInfo(dir, "unknown", 0, "unknown", ModulePath(dir), FALSE)]

\* a query that takes every descriptor
Contributes_All(info) == TRUE

\* "info.is_available and info.is_installed"
Contributes(info) == info.is_available /\ info.is_installed

\* get_supported_tasks: the set returned
SupportedTasks(infos) ==
    UNION {infos[n].available_tasks : n \in {x \in DOMAIN infos : Contributes(infos[x])}}

\* get_backends_for_task: the result as the set of the descriptors in it
BackendsForTask(infos, task_type) ==
    {infos[n] : n \in {x \in DOMAIN infos :
                          Contributes(infos[x]) /\ task_type \in infos[x].available_tasks}}

\* get_supported_models: the set returned
SupportedModels(infos) ==
    UNION {infos[n].available_models : n \in {x \in DOMAIN infos : Contributes(infos[x])}}

\* refresh_models of the manager's selector, the sync visiting the set in
\* the order given
RefreshModels(models, order) == SyncFromBackendManager(WithoutBackendModels(models), order)

\* "not backend_info or not backend_info.module_path"
NoModulePath(infos, backend_name) ==
    backend_name \notin DOMAIN infos \/ infos[backend_name].module_path \in {NoneVal, ""}

\* a load that imports the module again although it is loaded
AlreadyLoaded_Never(loaded, backend_name) == FALSE

\* load_backend, line 130
AlreadyLoaded(loaded, backend_name) == backend_name \in DOMAIN loaded

load_backend(backend_name) ==
    /\ Tick
    /\ install.pc = "idle"
    /\ IF AlreadyLoaded(loaded_backends, backend_name)
       THEN /\ last' = Call("load_backend", "", <<TRUE>>, 0, <<backend_name>>, "loaded")
            /\ UNCHANGED <<sidecars, backend_infos, loaded_backends, selector_models,
                           refresh_count>>
       ELSE IF NoModulePath(backend_infos, backend_name) \/ ~HasBackendClass(backend_name)
       THEN /\ last' = Call("load_backend", "", <<FALSE>>, 0, <<backend_name>>, "")
            /\ UNCHANGED <<sidecars, backend_infos, loaded_backends, selector_models,
                           refresh_count>>
       ELSE LET updated_info == BackendInfoFromBackend(BackendOf(backend_name), backend_name,
                                                       backend_infos[backend_name].module_path)
                infos == Put(backend_infos, backend_name, updated_info)
            IN /\ backend_infos' = infos
               /\ loaded_backends' = Put(loaded_backends, backend_name, BackendOf(backend_name))
               /\ sidecars' = Put(sidecars, backend_name, TomlOfBackendInfo(updated_info))
               /\ \E order \in Orderings(SupportedModels(infos)) :
                    selector_models' = RefreshModels(selector_models, order)
               /\ refresh_count' = refresh_count + 1
               /\ last' = Call("load_backend", "", <<TRUE>>, 1, <<backend_name>>, "imported")
    /\ UNCHANGED <<venvs, install, nonBackendVars>>

\* an uninstall that leaves the flag as it is
Uninstalled_Keeps(info) == info

\* uninstall_backend, line 306
Uninstalled(info) == [info EXCEPT !.is_installed = FALSE]

uninstall_backend(backend_name) ==
    /\ Tick
    /\ install.pc = "idle"
    /\ loaded_backends' = Drop(loaded_backends, backend_name)
    /\ IF NoModulePath(backend_infos, backend_name)
       THEN /\ last' = Call("uninstall_backend", "", <<TRUE>>, 0, <<backend_name>>, "")
            /\ UNCHANGED <<venvs, backend_infos, sidecars>>
       ELSE LET info == Uninstalled(backend_infos[backend_name])
            IN /\ venvs' = venvs \ {backend_name}
               /\ backend_infos' = Put(backend_infos, backend_name, info)
               /\ sidecars' = Put(sidecars, backend_name, TomlOfBackendInfo(info))
               /\ last' = Call("uninstall_backend", "", <<TRUE>>, 1, <<backend_name>>, "known")
    /\ UNCHANGED <<selector_models, refresh_count, install, nonBackendVars>>

refresh_backends ==
    /\ Tick
    /\ install.pc = "idle"
    /\ backend_infos' = ScanBackendDirectories(sidecars)
    /\ loaded_backends' = EmptyDir
    /\ \E order \in Orderings(SupportedModels(backend_infos')) :
         selector_models' = RefreshModels(selector_models, order)
    /\ refresh_count' = refresh_count + 1
    /\ last' = Call("refresh_backends", "", <<>>, 0, <<>>, "")
    /\ UNCHANGED <<venvs, sidecars, install, nonBackendVars>>

\* BackendManager(backends_dir) over the directory as it is: a new selector
\* is synced while no backend is known, then the directory is scanned
NewBackendManager ==
    /\ Tick
    /\ install.pc = "idle"
    /\ selector_models' = SyncFromBackendManager(DefaultModels, <<>>)
    /\ backend_infos' = ScanBackendDirectories(sidecars)
    /\ loaded_backends' = EmptyDir
    /\ last' = Call("BackendManager", "", <<>>, 0, <<>>, "")
    /\ UNCHANGED <<venvs, sidecars, refresh_count, install, nonBackendVars>>

get_supported_tasks ==
    /\ Tick
    /\ install.pc = "idle"
    /\ last' = Call("get_supported_tasks", "", <<SupportedTasks(backend_infos)>>, 0, <<>>, "")
    /\ UNCHANGED <<backendVars, nonBackendVars>>

get_backends_for_task(task_type) ==
    /\ Tick
    /\ install.pc = "idle"
    /\ last' = Call("get_backends_for_task", "",
                    <<BackendsForTask(backend_infos, task_type)>>, 0, <<task_type>>, "")
    /\ UNCHANGED <<backendVars, nonBackendVars>>

(* The calls on the manager's ModelSelector *)

register_model(model_info) ==
    /\ Tick
    /\ install.pc = "idle"
    /\ selector_models' = RegisterModel(selector_models, model_info)
    /\ last' = Call("register_model", "", <<model_info>>, 0, <<model_info.filename>>, "")
    /\ UNCHANGED <<venvs, sidecars, backend_infos, loaded_backends, refresh_count, install,
                   nonBackendVars>>

refresh_models ==
    /\ Tick
    /\ install.pc = "idle"
    /\ \E order \in Orderings(SupportedModels(backend_infos)) :
         selector_models' = RefreshModels(selector_models, order)
    /\ refresh_count' = refresh_count + 1
    /\ last' = Call("refresh_models", "", <<>>, 0, <<>>, "")
    /\ UNCHANGED <<venvs, sidecars, backend_infos, loaded_backends, install, nonBackendVars>>

\* set_backend_manager with the manager the selector belongs to
set_backend_manager ==
    /\ Tick
    /\ install.pc = "idle"
    /\ \E order \in Orderings(SupportedModels(backend_infos)) :
         selector_models' = SyncFromBackendManager(selector_models, order)
    /\ last' = Call("set_backend_manager", "", <<>>, 0, <<>>, "")
    /\ UNCHANGED <<venvs, sidecars, backend_infos, loaded_backends, refresh_count, install,
                   nonBackendVars>>

(* install_backend_dependencies: the call starts the worker thread and    *)
(* joins it; the steps of install_thread are the worker_ actions           *)

install_backend_dependencies(backend_name) ==
    /\ Tick
    /\ install.pc = "idle"
    /\ IF NoModulePath(backend_infos, backend_name) \/ ~HasPyproject(backend_name)
       THEN /\ last' = Call("install_backend_dependencies", "", <<FALSE>>, 0,
                            <<backend_name>>, "refused")
            /\ UNCHANGED install
       ELSE /\ install' = [pc |-> "venv", name |-> backend_name, outcome |-> FALSE,
                           callbacks |-> 0, trace |-> <<>>]
            /\ last' = Call("install_backend_dependencies", "", <<>>, 0,
                            <<backend_name>>, "running")
    /\ UNCHANGED <<venvs, sidecars, backend_infos, loaded_backends, selector_models,
                   refresh_count, nonBackendVars>>

\* the except branches of install_thread: one more callback, return False
WorkerFailed == [install EXCEPT !.pc = "done", !.outcome = FALSE, !.callbacks = @ + 2]

\* the step went through: the worker goes on to the next one
WorkerAt(pc) == [install EXCEPT !.pc = pc, !.callbacks = @ + 1]

\* what the worker has done so far, in the order it did it: "venv" the
\* environment created, "pre_install" and "post_install" the hooks called,
\* "sync" the dependencies synced, "installed" the flag set, "saved" the
\* sidecar file written
Did(call, what) == [call EXCEPT !.trace = Append(@, what)]

\* lines 213-224: uv venv, if there is no .venv yet
worker_venv ==
    /\ install.pc = "venv"
    /\ IF install.name \in venvs
       THEN install' = WorkerAt("pre") /\ UNCHANGED venvs
       ELSE \E ok \in BOOLEAN :
              IF ok THEN /\ install' = Did(WorkerAt("pre"), "venv")
                         /\ venvs' = venvs \cup {install.name}
              ELSE install' = WorkerFailed /\ UNCHANGED venvs
    /\ UNCHANGED <<sidecars, backend_infos, loaded_backends, selector_models, refresh_count,
                   nonBackendVars, last, steps>>

\* lines 226-232: pre_install of the loaded instance, which can raise
worker_pre_install ==
    /\ install.pc = "pre"
    /\ IF install.name \in DOMAIN loaded_backends
       THEN \E ok \in BOOLEAN :
              install' = IF ok THEN Did(WorkerAt("sync"), "pre_install")
                         ELSE Did(WorkerFailed, "pre_install")
       ELSE install' = WorkerAt("sync")
    /\ UNCHANGED <<venvs, sidecars, backend_infos, loaded_backends, selector_models,
                   refresh_count, nonBackendVars, last, steps>>

\* lines 234-243: uv sync
worker_sync ==
    /\ install.pc = "sync"
    /\ \E ok \in BOOLEAN : install' = IF ok THEN Did(WorkerAt("post"), "sync") ELSE WorkerFailed
    /\ UNCHANGED <<venvs, sidecars, backend_infos, loaded_backends, selector_models,
                   refresh_count, nonBackendVars, last, steps>>

\* lines 245-250: post_install of the loaded instance, which can raise
worker_post_install ==
    /\ install.pc = "post"
    /\ IF install.name \in DOMAIN loaded_backends
       THEN \E ok \in BOOLEAN :
              install' = IF ok THEN Did(WorkerAt("mark"), "post_install")
                         ELSE Did(WorkerFailed, "post_install")
       ELSE install' = WorkerAt("mark")
    /\ UNCHANGED <<venvs, sidecars, backend_infos, loaded_backends, selector_models,
                   refresh_count, nonBackendVars, last, steps>>

\* lines 252-259: the flag is set, the descriptor saved, True returned
worker_mark_installed ==
    /\ install.pc = "mark"
    /\ LET info == [backend_infos[install.name] EXCEPT !.is_installed = TRUE]
       IN /\ backend_infos' = Put(backend_infos, install.name, info)
          /\ sidecars' = Put(sidecars, install.name, TomlOfBackendInfo(info))
    /\ install' = Did(Did([install EXCEPT !.pc = "done", !.outcome = TRUE,
                                          !.callbacks = @ + 1], "installed"), "saved")
    /\ UNCHANGED <<venvs, loaded_backends, selector_models, refresh_count, nonBackendVars,
                   last, steps>>

\* line 279: return backend_info.is_installed
InstallResult(infos, call) == infos[call.name].is_installed

\* lines 277-279: join() returns once the worker has ended, then the call returns
install_return ==
    /\ install.pc = "done"
    /\ install' = [install EXCEPT !.pc = "idle"]
    /\ last' = [last EXCEPT !.ret = <<InstallResult(backend_infos, install)>>,
                            !.bucket = "returned"]
    /\ UNCHANGED <<venvs, sidecars, backend_infos, loaded_backends, selector_models,
                   refresh_count, nonBackendVars, steps>>

\* the sidecar file of a backend directory is overwritten, from outside the
\* manager, with text that is no TOML
DamageSidecar(backend_name) ==
    /\ Tick
    /\ install.pc = "idle"
    /\ HasInit(backend_name)
    /\ sidecars' = Put(sidecars, backend_name, NoToml)
    /\ sidecars' # sidecars
    /\ last' = Call("damage_sidecar", "", <<>>, 0, <<backend_name>>, "")
    /\ UNCHANGED <<venvs, backend_infos, loaded_backends, selector_models, refresh_count,
                   install, nonBackendVars>>

(* The inputs of the backend manager *)

\* the models register_model is given: one with the filename of a built-in
\* and of a backend model, one with a filename of its own
RegisteredModels ==
    {ModelInfo("Mine", "yolo11n.pt", "3M", {"DETECTION"}, "user", NoneVal),
     ModelInfo("Other", "other.pt", "5M", {"KEYPOINT"}, "user", NoneVal)}

\* the task types get_backends_for_task is asked for
QueriedTasks == {"DETECTION", "CLASSIFICATION", "KEYPOINT"}

\* BackendManager(backends_dir) on a root without sidecars and environments
BackendInit ==
    /\ venvs = {}
    /\ sidecars = EmptyDir
    /\ backend_infos = ScanBackendDirectories(EmptyDir)
    /\ loaded_backends = EmptyDir
    /\ selector_models = SyncFromBackendManager(DefaultModels, <<>>)
    /\ refresh_count = 0
    /\ install = NoInstall
    /\ IdleProjectDir
    /\ config_data = DefaultConfig
    /\ config_file = config_data
    /\ IdleModels
    /\ IdleDatasets
    /\ IdlePlans
    /\ last = NoCall
    /\ steps = 0

BackendNext ==
    \/ \E n \in BackendNames : load_backend(n)
    \/ \E n \in BackendNames : install_backend_dependencies(n)
    \/ worker_venv
    \/ worker_pre_install
    \/ worker_sync
    \/ worker_post_install
    \/ worker_mark_installed
    \/ install_return
    \/ \E n \in BackendNames : uninstall_backend(n)
    \/ refresh_backends
    \/ NewBackendManager
    \/ get_supported_tasks
    \/ \E t \in QueriedTasks : get_backends_for_task(t)
    \/ \E m \in RegisteredModels : register_model(m)
    \/ refresh_models
    \/ set_backend_manager
    \/ \E n \in BackendDirs : DamageSidecar(n)

BackendSpec == BackendInit /\ [][BackendNext]_vars

-----------------------------------------------------------------------------
(* Properties of the model selector, checked under BackendSpec *)

\* C11: register_model(m) with an entry of m's filename in the catalog leaves
\* the number of entries as it is, makes get_model_by_filename(m.filename)
\* return m and keeps the other entries in their order, m coming last; with
\* no such entry the catalog grows by m alone
C11_RegisterReplaces ==
    [][(last'.op = "register_model" /\ steps' = steps + 1) =>
         LET m == last'.ret[1]
             i == FirstWithFilename(selector_models, m.filename)
         IN /\ get_model_by_filename(selector_models', m.filename) = <<m>>
            /\ selector_models'[Len(selector_models')] = m
            /\ IF i # 0
               THEN /\ Len(selector_models') = Len(selector_models)
                    /\ SubSeq(selector_models', 1, Len(selector_models') - 1)
                       = RemoveAt(selector_models, i)
               ELSE /\ Len(selector_models') = Len(selector_models) + 1
                    /\ SubSeq(selector_models', 1, Len(selector_models)) = selector_models]_vars

\* C12: the catalog never holds two entries of one filename, and after
\* register_model(m) get_model_by_filename(m.filename) is m
C12_OneEntryPerFilename ==
    /\ \A i, j \in 1..Len(selector_models) :
         i # j => selector_models[i].filename # selector_models[j].filename
    /\ last.op = "register_model" =>
         get_model_by_filename(selector_models, last.dest[1]) = last.ret

\* the number of entries of the catalog equal to m
CountOf(models, m) == Cardinality({i \in 1..Len(models) : models[i] = m})

\* the entries of the catalog that no sync brought: built-in and registered
OwnEntries(models) == SelectSeq(models, LAMBDA m : m \in SeqToSet(DefaultModels) \cup RegisteredModels)

\* C13: a refresh_models that follows a refresh_models, the registry being
\* the same, leaves the catalog with the same entries as often as before, the
\* built-in and registered ones in their places
C13_RefreshIsFullReplace ==
    [][(last.op = "refresh_models" /\ last'.op = "refresh_models" /\ steps' = steps + 1) =>
         /\ Len(selector_models') = Len(selector_models)
         /\ \A i \in 1..Len(selector_models) :
              CountOf(selector_models', selector_models[i])
              = CountOf(selector_models, selector_models[i])
         /\ OwnEntries(selector_models') = OwnEntries(selector_models)]_vars

\* the union of available_models over the available and installed descriptors
ModelsOfUsableBackends ==
    {m \in UNION {backend_infos[n].available_models : n \in DOMAIN backend_infos} :
        \E n \in DOMAIN backend_infos :
            /\ backend_infos[n].is_available
            /\ backend_infos[n].is_installed
            /\ m \in backend_infos[n].available_models}

\* C14: after load_backend, install_backend_dependencies, uninstall_backend
\* and refresh_backends the entries of the catalog that came from backends
\* are the models of the descriptors that are available and installed
C14_CatalogTracksRegistry ==
    (/\ last.op \in {"load_backend", "install_backend_dependencies", "uninstall_backend",
                     "refresh_backends"}
     /\ install.pc = "idle")
    => SeqToSet(selector_models) \ (SeqToSet(DefaultModels) \cup RegisteredModels)
       = ModelsOfUsableBackends

-----------------------------------------------------------------------------
(* Properties of the backend manager, checked under BackendSpec *)

\* the descriptors that are available and installed
UsableBackends ==
    {n \in DOMAIN backend_infos :
        backend_infos[n].is_available = TRUE /\ backend_infos[n].is_installed = TRUE}

\* C15: get_supported_tasks returns the task types the available and
\* installed descriptors declare, and no other; get_backends_for_task(t)
\* returns the available and installed descriptors that declare t, and no other
C15_QueriesUseUsableBackends ==
    /\ last.op = "get_supported_tasks" =>
         last.ret[1] = {t \in TaskType :
                          \E n \in UsableBackends : t \in backend_infos[n].available_tasks}
    /\ last.op = "get_backends_for_task" =>
         last.ret[1] = {backend_infos[n] :
                          n \in {x \in UsableBackends :
                                   last.dest[1] \in backend_infos[x].available_tasks}}

\* a query answered while one descriptor that declares tasks is installed but
\* not available and another is usable
C15_Witness ==
    /\ last.op = "get_supported_tasks"
    /\ last.ret[1] # {}
    /\ \E n \in DOMAIN backend_infos :
         /\ ~backend_infos[n].is_available
         /\ backend_infos[n].is_installed
         /\ backend_infos[n].available_tasks # {}
         /\ backend_infos[n].available_tasks \cap last.ret[1] = {}

\* C16: load_backend of a backend that is loaded returns True without
\* importing the module, and leaves the instances, the descriptors, the
\* sidecar files and the catalog as they are, the selector not refreshed
C16_LoadIsIdempotent ==
    [][(/\ last'.op = "load_backend"
        /\ steps' = steps + 1
        /\ last'.dest[1] \in DOMAIN loaded_backends)
       => /\ last'.ret = <<TRUE>>
          /\ last'.bucket # "imported"
          /\ last'.saves = 0
          /\ UNCHANGED <<loaded_backends, backend_infos, sidecars, selector_models,
                         refresh_count, venvs>>]_vars

\* a second load of a backend that has a sidecar file and models in the catalog
C16_Witness ==
    /\ last.op = "load_backend"
    /\ last.bucket = "loaded"
    /\ last.dest[1] \in DOMAIN sidecars
    /\ backend_infos[last.dest[1]].available_models # {}

\* what the sidecar file is to hand on: name, version, tasks, installed flag
Persisted(info) ==
    [name |-> info.name, version |-> info.version,
     available_tasks |-> info.available_tasks, is_installed |-> info.is_installed]

\* C17: a load_backend that imports the module and returns True has stored
\* the instance, replaced the descriptor by the one derived from it, written
\* the sidecar file and refreshed the selector once; a BackendManager
\* constructed next has, with no backend loaded, a descriptor of the same
\* name, version, tasks and installed flag
C17_LoadPersistsDescriptor ==
    [][/\ (last'.op = "load_backend" /\ steps' = steps + 1 /\ last'.bucket = "imported") =>
            LET n == last'.dest[1]
            IN /\ last'.ret = <<TRUE>>
               /\ loaded_backends'[n] = BackendOf(n)
               /\ backend_infos'[n] = BackendInfoFromBackend(BackendOf(n), n, ModulePath(n))
               /\ n \in DOMAIN sidecars'
               /\ refresh_count' = refresh_count + 1
               /\ SupportedModels(backend_infos') \subseteq SeqToSet(selector_models')
       /\ (/\ last.op = "load_backend" /\ last.bucket = "imported"
           /\ last'.op = "BackendManager" /\ steps' = steps + 1) =>
            /\ loaded_backends' = EmptyDir
            /\ Persisted(backend_infos'[last.dest[1]]) = Persisted(backend_infos[last.dest[1]])]_vars

\* a manager constructed after a load, holding the descriptor of a backend
\* with tasks that it did not load
C17_Witness ==
    /\ last.op = "BackendManager"
    /\ last.prev = "load_backend"
    /\ loaded_backends = EmptyDir
    /\ \E n \in DOMAIN sidecars :
         /\ backend_infos[n].is_installed
         /\ backend_infos[n].available_tasks # {}
         /\ backend_infos[n].name = BackendOf(n).name

\* the step on which install_backend_dependencies returns
InstallReturns == install.pc = "done" /\ install'.pc = "idle"

\* C18: a worker step that fails leaves the descriptors and the sidecar files
\* as they are, and install_backend_dependencies returns True exactly when
\* the worker completed every step
C18_InstallFailureReported ==
    [][/\ (install.pc \notin {"idle", "done"} /\ install'.pc = "done" /\ ~install'.outcome)
            => UNCHANGED <<backend_infos, sidecars>>
       /\ InstallReturns => (last'.ret[1] = TRUE <=> install.outcome = TRUE)]_vars

\* C19: the call returns only once the worker has ended, nothing of the
\* install happens between that return and the next call, and the value
\* returned is the value the worker returned
C19_InstallJoinsWorker ==
    [][/\ (last.bucket = "running" /\ last'.bucket = "returned") => install.pc = "done"
       /\ (install.pc = "idle" /\ install' # install)
            => /\ last'.op = "install_backend_dependencies"
               /\ steps' = steps + 1
               /\ install'.callbacks = 0
       /\ InstallReturns => last'.ret = <<install.outcome>>]_vars

SaysInstalled(infos, n) == n \in DOMAIN infos /\ infos[n].is_installed = TRUE

\* C33: the installed flag of a backend becomes true only on the last step
\* of an install of it, or when its descriptor is read from a sidecar file
\* that records it as installed
C33_InstalledOnlyByInstall ==
    [][\A n \in BackendDirs :
         (SaysInstalled(backend_infos', n) /\ ~SaysInstalled(backend_infos, n)) =>
            \/ install.pc = "mark" /\ install.name = n
            \/ /\ last'.op \in {"refresh_backends", "BackendManager"}
               /\ n \in DOMAIN sidecars
               /\ Get(sidecars[n], "is_installed", FALSE) = TRUE]_vars

\* C35: load_backend, install_backend_dependencies and uninstall_backend of
\* a name the registry does not know return False and leave the descriptors,
\* the instances, the sidecar files and the catalog as they are
C35_UnknownNameRefused ==
    [][(/\ last'.op \in {"load_backend", "install_backend_dependencies",
                         "uninstall_backend"}
        /\ steps' = steps + 1
        /\ last'.dest[1] \notin DOMAIN backend_infos)
       => /\ last'.ret = <<FALSE>>
          /\ UNCHANGED <<backend_infos, loaded_backends, sidecars, selector_models>>]_vars

\* C34: when the worker of an install has completed every step, it has, in
\* this order, called pre_install once, synced the dependencies, called
\* post_install once, set the installed flag and written the sidecar file,
\* the environment created before all of that and only if there was none
C34_InstallOrder ==
    (install.pc = "done" /\ install.outcome = TRUE) =>
        /\ SelectSeq(install.trace, LAMBDA e : e # "venv")
           = <<"pre_install", "sync", "post_install", "installed", "saved">>
        /\ \A i \in 1..Len(install.trace) : install.trace[i] = "venv" => i = 1
        /\ install.name \in venvs

\* C36: after BackendManager(root) and after refresh_backends the known
\* backend names are the subdirectories of the root that hold __init__.py,
\* and a backend without sidecar file is listed as not installed and not
\* available
C36_ScanListsEntryPoints ==
    last.op \in {"refresh_backends", "BackendManager"} =>
        /\ DOMAIN backend_infos = {d \in BackendDirs : HasInit(d)}
        /\ \A n \in DOMAIN backend_infos \ DOMAIN sidecars :
             /\ backend_infos[n].is_installed = FALSE
             /\ backend_infos[n].is_available = FALSE

-----------------------------------------------------------------------------
(* project_config.py: the ProjectConfig object over the project directory *)

nonConfigVars == <<modelVars, datasetVars, planVars, backendVars>>

\* the document of a file that holds no table
EmptyDoc == [k \in {} |-> ""]

\* a check that never finds the file
ConfigPathExists_Never(path, kind) == FALSE

\* config_path.exists()
ConfigPathExists(path, kind) == path = "dir" /\ kind # "absent"

\* ProjectConfig(project_path / "yoloflow.toml"): __init__ and _load_config.
\* config_file is the document yoloflow.toml parses to; a constructor that
\* raises leaves the caller with the object it had
NewProjectConfig ==
    /\ Tick
    /\ IF ConfigPathExists(project_path, config_kind)
       THEN IF config_kind = "malformed"
            THEN /\ last' = Call("ProjectConfig", "TOMLDecodeError", <<>>, 0, <<>>, "")
                 /\ UNCHANGED <<configVars, dirVars>>
            ELSE /\ config_data' = config_file
                 /\ config_live' = TRUE
                 /\ last' = Call("ProjectConfig", "", <<>>, 0, <<>>, "")
                 /\ UNCHANGED <<config_file, project_path, subdirs, config_kind>>
       ELSE IF project_path = "file"
            THEN /\ last' = Call("ProjectConfig", "FileExistsError", <<>>, 1, <<>>, "")
                 /\ UNCHANGED <<configVars, dirVars>>
            ELSE /\ config_data' = CreateDefaultConfig(Now)
                 /\ config_file' = CreateDefaultConfig(Now)
                 /\ config_kind' = "toml"
                 /\ project_path' = "dir"
                 /\ subdirs' = IF project_path = "dir" THEN subdirs ELSE {}
                 /\ config_live' = TRUE
                 /\ last' = Call("ProjectConfig", "", <<>>, 1, <<>>, "")
    /\ UNCHANGED nonConfigVars

\* the setter of project_name
SetProjectName(value) ==
    /\ Tick
    /\ config_live
    /\ config_data' =
         Put(config_data, "project",
             Put(IF "project" \in DOMAIN config_data THEN config_data.project ELSE EmptyDoc,
                 "name", value))
    /\ last' = Call("project_name", "", <<>>, 0, <<value>>, "")
    /\ UNCHANGED <<config_file, dirVars, nonConfigVars>>

\* set_custom_field(key, value)
set_custom_field(key, value) ==
    /\ Tick
    /\ config_live
    /\ config_data' =
         Put(config_data, "custom_fields",
             Put(IF "custom_fields" \in DOMAIN config_data
                 THEN config_data.custom_fields ELSE EmptyDoc,
                 key, value))
    /\ last' = Call("set_custom_field", "", <<>>, 0, <<key, value>>, "")
    /\ UNCHANGED <<config_file, dirVars, nonConfigVars>>

(* The project directory changed from outside the program *)

\* yoloflow.toml is deleted
DeleteConfig ==
    /\ Tick
    /\ project_path = "dir"
    /\ config_kind # "absent"
    /\ config_kind' = "absent"
    /\ config_file' = EmptyDoc
    /\ last' = Call("delete_config", "", <<>>, 0, <<>>, "")
    /\ UNCHANGED <<config_data, project_path, subdirs, config_live, nonConfigVars>>

\* yoloflow.toml is written with a document
WriteConfig(doc) ==
    /\ Tick
    /\ project_path = "dir"
    /\ config_kind' = "toml"
    /\ config_file' = doc
    /\ last' = Call("write_config", "", <<>>, 0, <<>>, "")
    /\ UNCHANGED <<config_data, project_path, subdirs, config_live, nonConfigVars>>

\* yoloflow.toml is written with text that is no TOML
WriteMalformed ==
    /\ Tick
    /\ project_path = "dir"
    /\ config_kind # "malformed"
    /\ config_kind' = "malformed"
    /\ config_file' = EmptyDoc
    /\ last' = Call("write_malformed", "", <<>>, 0, <<>>, "")
    /\ UNCHANGED <<config_data, project_path, subdirs, config_live, nonConfigVars>>

\* the project directory is removed (by = "absent") or a file takes its
\* place (by = "file")
ReplaceProjectDir(by) ==
    /\ Tick
    /\ project_path # by
    /\ project_path' = by
    /\ subdirs' = {}
    /\ config_kind' = "absent"
    /\ config_file' = EmptyDoc
    /\ pretrain_dir' = EmptyDir
    /\ model_dir' = EmptyDir
    /\ dataset_dir' = EmptyDir
    /\ plan_files' = EmptyDir
    /\ last' = Call("replace_project_dir", "", <<>>, 0, <<by>>, "")
    /\ UNCHANGED <<config_data, config_live, mm_task_type, plans_cache, pm_task_type,
                   uuid_count, backendVars>>

\* one of the directories of the project is removed with what it holds
RemoveSubdir(d) ==
    /\ Tick
    /\ d \in subdirs
    /\ subdirs' = subdirs \ {d}
    /\ pretrain_dir' = IF d = "pretrain" THEN EmptyDir ELSE pretrain_dir
    /\ model_dir' = IF d = "model" THEN EmptyDir ELSE model_dir
    /\ plan_files' = IF d = "model" THEN EmptyDir ELSE plan_files
    /\ dataset_dir' = IF d = "dataset" THEN EmptyDir ELSE dataset_dir
    /\ last' = Call("remove_subdir", "", <<>>, 0, <<d>>, "")
    /\ UNCHANGED <<configVars, project_path, config_kind, config_live, mm_task_type,
                   plans_cache, pm_task_type, uuid_count, backendVars>>

(* enums/plan_status.py, plan_info.py *)

\* the members of PlanStatus and their values
PlanStatusMembers == {"Pending", "Running", "Completed", "Failed"}

PlanStatusValue(member) ==
    CASE member = "Pending"   -> "pending"
      [] member = "Running"   -> "running"
      [] member = "Completed" -> "completed"
      [] member = "Failed"    -> "failed"

\* PlanInfo.create_new
PlanInfoCreateNew(plan_id, name, file_path, now) ==
    [plan_id |-> plan_id, name |-> name, file_path |-> file_path, created_at |-> now,
     status |-> "Pending"]

\* PlanInfo.from_dict: the status is taken as the document holds it, a str
PlanInfoFromDict(d, now) ==
    [plan_id |-> d.plan_id, name |-> d.name, file_path |-> d.file_path,
     created_at |-> IF "created_at" \in DOMAIN d THEN d.created_at ELSE now,
     status |-> IF "status" \in DOMAIN d THEN d.status ELSE "Pending"]

\* self.status.value raises AttributeError on a str
PlanInfoToDictRaises(info) == info.status \notin PlanStatusMembers

\* PlanInfo.to_dict
PlanInfoToDict(info) == [info EXCEPT !.status = PlanStatusValue(info.status)]

\* PlanInfo.update_status
PlanInfoUpdateStatus(info, new_status) == [info EXCEPT !.status = new_status]

(* project_config.py: the plans index *)

plan_details(cd, now) ==
    LET detailed == GetIn(cd, "plans", "detailed", <<>>)
    IN [i \in 1..Len(detailed) |-> PlanInfoFromDict(detailed[i], now)]

\* add_plan as far as the call of to_dict: the section and the available list
AddPlanAvailable(cd, plan_id) ==
    LET plans == IF "plans" \in DOMAIN cd THEN cd.plans
                 ELSE [available |-> <<>>, detailed |-> <<>>]
    IN Put(cd, "plans",
           IF plan_id \in SeqToSet(plans.available) THEN plans
           ELSE [plans EXCEPT !.available = Append(@, plan_id)])

\* add_plan, to_dict returning
add_plan(cd, plan_info) ==
    [AddPlanAvailable(cd, plan_info.plan_id) EXCEPT !.plans.detailed =
        Append(SelectSeq(@, LAMBDA p : p.plan_id # plan_info.plan_id),
               PlanInfoToDict(plan_info))]

remove_plan(cd, plan_id) ==
    IF "plans" \in DOMAIN cd
    THEN [cd EXCEPT !.plans.available = ListRemove(@, plan_id),
                    !.plans.detailed = SelectSeq(@, LAMBDA p : p.plan_id # plan_id)]
    ELSE cd

\* get_plan_info finds a plan
HasPlanInfo(cd, plan_id) ==
    \E i \in 1..Len(plan_details(cd, 0)) : plan_details(cd, 0)[i].plan_id = plan_id

\* get_plan_info, for a plan it finds
get_plan_info(cd, plan_id, now) ==
    Head(SelectSeq(plan_details(cd, now), LAMBDA p : p.plan_id = plan_id))

\* config.add_plan(PlanInfo.create_new(plan_id, name, file_path))
ConfigAddPlan(plan_id, name) ==
    /\ Tick
    /\ config_live
    /\ config_data' = add_plan(config_data,
                               PlanInfoCreateNew(plan_id, name, PlanFile(plan_id), Now))
    /\ last' = Call("config.add_plan", "", <<>>, 0, <<plan_id, name>>, "plan")
    /\ UNCHANGED <<config_file, dirVars, nonConfigVars>>

\* config.remove_plan(plan_id)
ConfigRemovePlan(plan_id) ==
    /\ Tick
    /\ config_live
    /\ config_data' = remove_plan(config_data, plan_id)
    /\ last' = Call("config.remove_plan", "", <<>>, 0, <<plan_id>>, "plan")
    /\ UNCHANGED <<config_file, dirVars, nonConfigVars>>

\* config.update_plan_status(plan_id, status)
update_plan_status(plan_id, status) ==
    /\ Tick
    /\ config_live
    /\ IF HasPlanInfo(config_data, plan_id)
       THEN LET plan_info == PlanInfoUpdateStatus(get_plan_info(config_data, plan_id, Now),
                                                  status)
            IN IF PlanInfoToDictRaises(plan_info)
               THEN /\ config_data' = AddPlanAvailable(config_data, plan_id)
                    /\ last' = Call("update_plan_status", "AttributeError", <<>>, 0,
                                    <<plan_id, status>>, "plan")
               ELSE /\ config_data' = add_plan(config_data, plan_info)
                    /\ last' = Call("update_plan_status", "", <<>>, 0,
                                    <<plan_id, status>>, "plan")
       ELSE /\ last' = Call("update_plan_status", "", <<>>, 0, <<plan_id, status>>, "plan")
            /\ UNCHANGED config_data
    /\ UNCHANGED <<config_file, dirVars, nonConfigVars>>

(* project_config.py: the calls on the model section *)

\* config.add_model(model_info)
ConfigAddModel(model_info) ==
    /\ Tick
    /\ config_live
    /\ config_data' = add_model(config_data, model_info)
    /\ last' = Call("config.add_model", "", <<>>, 0, model_info.filename, "")
    /\ UNCHANGED <<config_file, dirVars, nonConfigVars>>

\* config.remove_model(filename)
ConfigRemoveModel(filename) ==
    /\ Tick
    /\ config_live
    /\ config_data' = remove_model(config_data, filename)
    /\ last' = Call("config.remove_model", "", <<>>, 0, filename, "")
    /\ UNCHANGED <<config_file, dirVars, nonConfigVars>>

(* project.py: Project(project_path) *)

\* Project.__init__: the ProjectConfig, the dataset manager, the model
\* manager and the plan manager are constructed over the directory as it is,
\* each making the directory it works in, then _ensure_project_structure
\* makes every directory of REQUIRED_DIRS
OpenProject ==
    /\ Tick
    /\ IF project_path # "dir"
       THEN /\ last' = Call("Project",
                            IF project_path = "absent" THEN "FileNotFoundError"
                            ELSE "ValueError",
                            <<>>, 0, <<>>, "")
            /\ UNCHANGED <<configVars, dirVars, nonConfigVars>>
       ELSE IF ConfigPathExists(project_path, config_kind) /\ config_kind = "malformed"
       THEN /\ last' = Call("Project", "TOMLDecodeError", <<>>, 0, <<>>, "")
            /\ UNCHANGED <<configVars, dirVars, nonConfigVars>>
       ELSE LET made == ~ ConfigPathExists(project_path, config_kind)
                c == IF made THEN CreateDefaultConfig(Now) ELSE config_file
                d == LoadDatasetsFromConfig(c)
                task_type == ConfigTaskType(d.config)
            IN \E order \in Orderings(PretrainedUndeclared(d.config, pretrain_dir)) :
                 LET r == PretrainedSync(d.config, pretrain_dir, task_type, order)
                     t == SyncTrainedModels(r.config, model_dir)
                 IN /\ config_data' = t.config
                    /\ config_file' = IF t.saves > 0 THEN t.config
                                      ELSE IF r.saves > 0 THEN r.config
                                      ELSE IF d.saves > 0 THEN d.config
                                      ELSE c
                    /\ config_kind' = "toml"
                    /\ config_live' = TRUE
                    /\ subdirs' = RequiredDirs
                    /\ mm_task_type' = task_type
                    /\ pm_task_type' = task_type
                    /\ plans_cache' = LoadAllPlans(plan_files, Now)
                    /\ last' = Call("Project", "", <<>>,
                                    (IF made THEN 1 ELSE 0) + d.saves + r.saves + t.saves,
                                    <<>>, "")
                    /\ UNCHANGED <<project_path, pretrain_dir, model_dir, dataset_dir,
                                   plan_files, uuid_count, backendVars>>

(* The inputs of the ProjectConfig *)

ProjectNameInputs == {"demo"}
CustomFieldInputs == {<<"author", "me">>}
ConfigPlanIds == {1, 2}
ConfigPlanNames == {"baseline"}

\* the statuses update_plan_status is called with: the members of PlanStatus
\* and, as its annotation has it, a str
StatusInputs == PlanStatusMembers \cup {"running"}

ModelInfoInputs ==
    {ProjectModelInfo(<<"A">>, <<"a", "pt">>, <<>>, 0, "DETECTION", "imported")}

\* the documents a yoloflow.toml written by hand or by an older version holds
ConfigDocInputs ==
    {EmptyDoc,
     [project |-> [name |-> "x"]],
     [project |-> [name |-> "x", task_type |-> TaskTypeValue("DETECTION")],
      datasets |-> [available |-> <<"coco">>]],
     CreateDefaultConfig(0)}

\* the project Project.create_new left, its ProjectConfig in hand
ConfigInit ==
    /\ config_data = DefaultConfig
    /\ config_file = config_data
    /\ IdleModels
    /\ IdleDatasets
    /\ IdlePlans
    /\ IdleBackends
    /\ IdleProjectDir
    /\ last = NoCall
    /\ steps = 0

ConfigNext ==
    \/ NewProjectConfig
    \/ ConfigSave
    \/ \E v \in ProjectNameInputs : SetProjectName(v)
    \/ \E kv \in CustomFieldInputs : set_custom_field(kv[1], kv[2])
    \/ \E n \in DatasetNames : ConfigAddDataset(n)
    \/ \E m \in ModelInfoInputs : ConfigAddModel(m)
    \/ \E f \in PtNames : ConfigRemoveModel(f)
    \/ \E id \in ConfigPlanIds, n \in ConfigPlanNames : ConfigAddPlan(id, n)
    \/ \E id \in ConfigPlanIds : ConfigRemovePlan(id)
    \/ \E id \in ConfigPlanIds, st \in StatusInputs : update_plan_status(id, st)
    \/ DeleteConfig
    \/ \E doc \in ConfigDocInputs : WriteConfig(doc)
    \/ WriteMalformed
    \/ \E by \in {"absent", "file"} : ReplaceProjectDir(by)
    \/ \E d \in RequiredDirs : RemoveSubdir(d)
    \/ OpenProject

ConfigSpec == ConfigInit /\ [][ConfigNext]_vars

-----------------------------------------------------------------------------
(* Properties of the ProjectConfig, checked under ConfigSpec *)

\* C21: ProjectConfig on a directory with no yoloflow.toml makes the default
\* document and writes it at once; with a file that parses it loads the
\* document and writes nothing; with a malformed file it raises the parse
\* error and the file stays as it was
C21_LoadOrCreate ==
    [][(last'.op = "ProjectConfig" /\ project_path = "dir") =>
         /\ config_kind = "absent" =>
              /\ last'.raised = ""
              /\ config_data' = CreateDefaultConfig(steps')
              /\ config_kind' = "toml"
              /\ config_file' = config_data'
              /\ last'.saves = 1
         /\ config_kind = "toml" =>
              /\ last'.raised = ""
              /\ config_data' = config_file
              /\ UNCHANGED <<config_file, config_kind>>
              /\ last'.saves = 0
         /\ config_kind = "malformed" =>
              /\ last'.raised = "TOMLDecodeError"
              /\ UNCHANGED <<config_file, config_kind, config_data>>
              /\ last'.saves = 0]_vars

\* a ProjectConfig made over a directory whose yoloflow.toml had been deleted
C21_Witness ==
    /\ last.op = "ProjectConfig"
    /\ last.prev = "delete_config"
    /\ last.saves = 1
    /\ config_kind = "toml"
    /\ config_file = config_data

\* a ProjectConfig refused over a malformed yoloflow.toml
C21_WitnessMalformed ==
    /\ last.op = "ProjectConfig"
    /\ last.raised = "TOMLDecodeError"
    /\ config_kind = "malformed"

RequiredSections == {"project", "datasets", "models", "plans", "training", "custom_fields"}

\* C22: the document of a ProjectConfig holds every required section
C22_SectionsPresent == config_live => RequiredSections \subseteq DOMAIN config_data

\* the status the plans index holds for a plan, NoneVal for a plan not in it
StatusOf(cd, plan_id) ==
    LET detailed == GetIn(cd, "plans", "detailed", <<>>)
        found == SelectSeq(detailed, LAMBDA p : p.plan_id = plan_id)
    IN IF found = <<>> THEN NoneVal ELSE Head(found).status

AllowedTransitions ==
    {<<"pending", "running">>, <<"running", "completed">>, <<"running", "failed">>}

\* C25: a plan enters the index pending; update_plan_status moves a status
\* only from pending to running and from running to completed or failed; no
\* other call on the ProjectConfig changes the status of a plan in the index
C25_StatusLifecycle ==
    [][\A id \in ConfigPlanIds :
         LET old == StatusOf(config_data, id)
             new == StatusOf(config_data', id)
         IN /\ (last'.op = "config.add_plan" /\ last'.dest[1] = id) => new = "pending"
            /\ (last'.op = "update_plan_status" /\ old # new) =>
                 <<old, new>> \in AllowedTransitions
            /\ (last'.op \in {"config.save", "project_name", "set_custom_field",
                              "config.add_dataset", "config.add_model",
                              "config.remove_model"}) => old = new]_vars

\* C23: Project(path) raises when the path does not exist, is no directory,
\* holds a yoloflow.toml that does not parse, or lacks one of the required
\* directories
C23_OpenFailsOnInvalid ==
    [][(/\ last'.op = "Project"
        /\ \/ project_path # "dir"
           \/ config_kind = "malformed"
           \/ subdirs # RequiredDirs)
       => last'.raised # ""]_vars

====
